---------------------------- MODULE Spec2Model ----------------------------
(***************************************************************************)
(* TalentLens-AI: the Match Scorer (backend/services/matching_service.py), *)
(* the Embedding Provider (backend/services/embedding_service.py), the     *)
(* match-calculation endpoint (backend/api/matches.py) and the             *)
(* Recommendation Ranker (backend/services/recommendation_service.py,      *)
(* backend/api/recommendations.py), the resume parser                      *)
(* (backend/services/resume_parser.py), the Skill Extractor                *)
(* (backend/services/skill_extractor.py) and the Job Monitor               *)
(* (backend/tasks/job_monitor.py) as state machines.                       *)
(*                                                                         *)
(* Conventions of the model                                                *)
(*  - A Python str is a sequence of one-character strings, so that         *)
(*    str.lower() and the substring test `key in text` are computed.       *)
(*  - Python None in a text or list field is the value NoneVal.            *)
(*  - A Python float score is an exact fraction [n |-> , d |-> ] in lowest *)
(*    terms; round(x, 2) yields an integer number of hundredths (6667 is   *)
(*    66.67).  Binary floating-point error, which is far below the         *)
(*    rounding step of 0.01, is not represented.                           *)
(*  - An embedding vector is a small integer vector; model.encode and the  *)
(*    SHA-256 seeded fallback are two different deterministic functions of *)
(*    the text.                                                            *)
(***************************************************************************)
EXTENDS Integers, Sequences, FiniteSets, TLC

VARIABLES
    EMBEDDINGS_AVAILABLE, \* embedding_service.py:13-18, fixed at import
    _model,               \* EmbeddingService._model: "None" or "Loaded"
    svc,                  \* scorer harness: a MatchingService has been constructed
    resume,               \* scorer harness: the resume last scored (<<>> or <<r>>)
    job,                  \* scorer harness: the job last scored (<<>> or <<j>>)
    result,               \* scorer harness: outcome of the last calculate_match
    matches,              \* the rows of table "matches", in insertion order
    recommendations,      \* the rows of table "recommendations"
    requests,             \* the HTTP requests: parameters, position, response
    rec_svc,              \* ranker harness: a RecommendationService has been constructed
    ranked,               \* ranker harness: the last generate call and what it returned
    constructed,          \* embedding harness: EmbeddingService() calls made so far
    loads,                \* embedding harness: loads of the model completed so far
    vectors,              \* embedding harness: per text, the vectors embed_text has returned
    PyPDF2,               \* resume_parser: PyPDF2 and pdfminer were imported
    Document,             \* resume_parser: python-docx was imported
    parse_call,           \* parser harness: the parse call made and how it ended
    sections_call,        \* parser harness: the _parse_sections call made and what it returned
    years_call,           \* parser harness: the _calculate_experience_years call made and what it returned
    gap_call,             \* gap harness: the generate_skill_gap_analysis call made and how it ended
    nlp,                  \* skill_extractor.py:13-18: the spaCy pipeline was loaded (else nlp is None)
    extract_call,         \* extractor harness: the extract call made and what it returned
    cache_file,           \* data/seen_jobs.json: <<>> when absent, else <<the set of keys in it>>
    stored_jobs,          \* the rows the monitor has stored in table "jobs", in insertion order
    seen_jobs,            \* JobMonitor.seen_jobs of the current instance (<<>>: none constructed)
    monitor_runs,         \* monitor harness: what each run_monitor call so far treated as new, matched, stored and notified
    education_call        \* education harness: the _extract_education call made, what it returned and how it was scored

scorerVars == <<svc, resume, job, result>>

apiVars == <<matches, recommendations, requests>>

rankerVars == <<rec_svc, ranked>>

embedVars == <<constructed, loads, vectors>>

parserVars == <<PyPDF2, Document, parse_call, sections_call, years_call>>

gapVars == <<gap_call>>

extractorVars == <<nlp, extract_call>>

monitorVars == <<cache_file, stored_jobs, seen_jobs, monitor_runs>>

educationVars == <<education_call>>

vars == <<EMBEDDINGS_AVAILABLE, _model, scorerVars, apiVars, rankerVars, embedVars, parserVars, gapVars, extractorVars, monitorVars, educationVars>>

-----------------------------------------------------------------------------
(* Python values                                                           *)

NoneVal == <<"\\None">>

\* Python `x or default` for a str or list field: None and empty are falsy.
Falsy(x) == x = NoneVal \/ x = <<>>

OrElse(x, default) == IF Falsy(x) THEN default ELSE x

Uppercase ==
    <<"A","B","C","D","E","F","G","H","I","J","K","L","M",
      "N","O","P","Q","R","S","T","U","V","W","X","Y","Z">>

Lowercase ==
    <<"a","b","c","d","e","f","g","h","i","j","k","l","m",
      "n","o","p","q","r","s","t","u","v","w","x","y","z">>

\* the upper-case letters and their lower-case forms, as a lookup table
LowerTable ==
    [c \in {Uppercase[i] : i \in 1..Len(Uppercase)} |->
        Lowercase[CHOOSE i \in 1..Len(Uppercase) : Uppercase[i] = c]]

LowerChar(c) == IF c \in DOMAIN LowerTable THEN LowerTable[c] ELSE c

\* str.lower()
Lower(s) == [i \in 1..Len(s) |-> LowerChar(s[i])]

\* Python `key in text` for two strs
Contains(text, key) ==
    \E i \in 0..(Len(text) - Len(key)) :
        \A k \in 1..Len(key) : text[i + k] = key[k]

\* list[:n]
Take(s, n) == IF Len(s) <= n THEN s ELSE SubSeq(s, 1, n)

Min(a, b) == IF a <= b THEN a ELSE b

Max(a, b) == IF a >= b THEN a ELSE b

Abs(a) == IF a < 0 THEN -a ELSE a

-----------------------------------------------------------------------------
(* Exact arithmetic standing for Python floats                             *)

RECURSIVE GCD(_, _)
GCD(a, b) == IF b = 0 THEN a ELSE GCD(b, a % b)

\* the fraction n/d (d > 0) in lowest terms
Frac(n, d) ==
    LET g == GCD(Abs(n), d) IN [n |-> n \div g, d |-> d \div g]

FracOfInt(k) == [n |-> k, d |-> 1]

FracLE(a, b) == a.n * b.d <= b.n * a.d

FracLT(a, b) == a.n * b.d < b.n * a.d

FracAdd(a, b) == Frac(a.n * b.d + b.n * a.d, a.d * b.d)

FracMul(a, b) == Frac(a.n * b.n, a.d * b.d)

FracMin(a, b) == IF FracLE(a, b) THEN a ELSE b

FracMax(a, b) == IF FracLE(b, a) THEN a ELSE b

\* Python round(x, 2) of a non-negative x, as a number of hundredths;
\* an exact tie goes to the even neighbour.
Round2(x) ==
    LET q == (100 * x.n) \div x.d
        r == (100 * x.n) % x.d
    IN  IF 2 * r < x.d THEN q
        ELSE IF 2 * r > x.d THEN q + 1
        ELSE IF q % 2 = 0 THEN q ELSE q + 1

-----------------------------------------------------------------------------
(* Embedding Provider: backend/services/embedding_service.py               *)

Alphabet ==
    Lowercase \o Uppercase \o <<" ", ".", "'", "/", "+", "#", "-", ",">>

CharCodeTable ==
    [c \in {Alphabet[i] : i \in 1..Len(Alphabet)} |->
        CHOOSE i \in 1..Len(Alphabet) : Alphabet[i] = c]

CharCode(c) == CharCodeTable[c]

\* A deterministic digest of a text, standing for hashlib.sha256(text).
RECURSIVE TextHash(_)
TextHash(text) ==
    IF text = <<>> THEN 7
    ELSE Len(text) * CharCode(text[Len(text)])
         + TextHash(SubSeq(text, 1, Len(text) - 1))

\* The vectors rng.randn can produce here: never the zero vector.
FallbackVectors ==
    << <<-400, 561>>, <<4, 3>>, <<-3, 4>>, <<5, 0>>, <<-4, -3>>, <<0, -5>>, <<6, 8>> >>

\* The vectors the sentence-transformer model can produce here.
EncodeVectors ==
    << <<4, 3>>, <<0, 5>>, <<3, 4>>, <<-5, 0>>, <<0, 0>>, <<3, -4>>, <<-4, 3>>, <<8, 6>> >>

\* EmbeddingService._model.encode(text)
Encode(text) ==
    EncodeVectors[((3 * TextHash(text) + Len(text)) % Len(EncodeVectors)) + 1]

\* rng = RandomState(int(sha256(text)[:8], 16) % 2**31); rng.randn(dim)
_fallback_embedding(text) ==
    FallbackVectors[(TextHash(text) % Len(FallbackVectors)) + 1]

\* embed_text; self_model: self._model as the call reads it;
\* encodeRaises: this call of _model.encode raises
embed_text(self_model, text, encodeRaises) ==
    IF ~EMBEDDINGS_AVAILABLE \/ self_model = "None"
    THEN _fallback_embedding(text)
    ELSE IF encodeRaises THEN _fallback_embedding(text)
         ELSE Encode(text)

Dot(a, b) == a[1] * b[1] + a[2] * b[2]

\* np.linalg.norm; every modelled vector has an integer norm
Norm(v) == CHOOSE r \in 0..Dot(v, v) : r * r = Dot(v, v)

compute_similarity(embedding1, embedding2) ==
    LET norm1 == Norm(embedding1)
        norm2 == Norm(embedding2)
    IN  IF norm1 = 0 \/ norm2 = 0 THEN FracOfInt(0)
        ELSE LET similarity == Frac(Dot(embedding1, embedding2), norm1 * norm2)
                 rescaled == FracMul(FracAdd(similarity, FracOfInt(1)), Frac(1, 2))
             IN  FracMax(FracOfInt(0), FracMin(FracOfInt(1), rescaled))

\* EmbeddingService.__init__ (with __new__): loads the model when the
\* library is importable and no model is held; loadOk: SentenceTransformer()
\* does not raise.
\* variant: the model is loaded whether or not one is held
ShouldLoad_always == EMBEDDINGS_AVAILABLE

\* `if EMBEDDINGS_AVAILABLE and EmbeddingService._model is None`
ShouldLoad == EMBEDDINGS_AVAILABLE /\ _model = "None"

\* _load_model: the model, or None when SentenceTransformer() raises
_load_model(loadOk) == IF loadOk THEN "Loaded" ELSE "None"

EmbeddingService_init(loadOk) ==
    IF ShouldLoad THEN _load_model(loadOk) ELSE _model

\* list(a_set): within one process the iteration order of a set of strs is
\* a function of the set; which order it is, is not specified.
SetToList(S) ==
    CHOOSE q \in [1..Cardinality(S) -> S] :
        \A i, j \in 1..Cardinality(S) : i # j => q[i] # q[j]

-----------------------------------------------------------------------------
(* Match Scorer: backend/services/matching_service.py                      *)

NoneList == << <<"\\NoneList">> >>

\* Python `x or []` for a JSON list column
OrEmptyList(x) == IF x = NoneList \/ x = <<>> THEN <<>> ELSE x

\* None in a JSON column that holds a list of dicts
NoneDicts == << [None |-> TRUE] >>

OrEmptyDicts(x) == IF x = NoneDicts \/ x = <<>> THEN <<>> ELSE x

\* Python `x or 0` for an Integer column held as <<>> (None) or <<n>>
OrZero(x) == IF x = <<>> THEN 0 ELSE x[1]

\* variant: the skill and semantic weights exchanged
WEIGHTS_swapped ==
    [skill_score      |-> Frac(30, 100),
     semantic_score   |-> Frac(40, 100),
     experience_score |-> Frac(20, 100),
     education_score  |-> Frac(10, 100)]

\* MatchingService.WEIGHTS
WEIGHTS ==
    [skill_score      |-> Frac(40, 100),
     semantic_score   |-> Frac(30, 100),
     experience_score |-> Frac(20, 100),
     education_score  |-> Frac(10, 100)]

Percent(x) == FracMul(x, FracOfInt(100))

PerHundred(x) == FracMul(x, Frac(1, 100))

\* s.lower() raises AttributeError on a None element of a skills list
SkillsRaise(resume_, job_) ==
    \/ \E i \in 1..Len(OrEmptyList(resume_.skills)) :
           OrEmptyList(resume_.skills)[i] = NoneVal
    \/ \E i \in 1..Len(OrEmptyList(job_.skills_required)) :
           OrEmptyList(job_.skills_required)[i] = NoneVal

\* variant: the gaps are taken from the required skills as written
_calculate_skill_score_rawgaps(resume_, job_) ==
    LET rs == OrEmptyList(resume_.skills)
        js == OrEmptyList(job_.skills_required)
        resume_skills == {Lower(rs[i]) : i \in 1..Len(rs)}
        job_skills == {Lower(js[i]) : i \in 1..Len(js)}
        overlap == resume_skills \cap job_skills
        gaps == {js[i] : i \in 1..Len(js)} \ resume_skills
    IN  IF job_skills = {}
        THEN [score |-> FracOfInt(100),
              overlap |-> SetToList(resume_skills),
              gaps |-> <<>>]
        ELSE [score |-> Percent(Frac(Cardinality(overlap), Cardinality(job_skills))),
              overlap |-> SetToList(overlap),
              gaps |-> SetToList(gaps)]

\* variant: the resume's skills are compared as written, not lower-cased
_calculate_skill_score_casesensitive(resume_, job_) ==
    LET rs == OrEmptyList(resume_.skills)
        js == OrEmptyList(job_.skills_required)
        resume_skills == {rs[i] : i \in 1..Len(rs)}
        job_skills == {Lower(js[i]) : i \in 1..Len(js)}
        overlap == resume_skills \cap job_skills
        gaps == job_skills \ resume_skills
    IN  IF job_skills = {}
        THEN [score |-> FracOfInt(100),
              overlap |-> SetToList(resume_skills),
              gaps |-> <<>>]
        ELSE [score |-> Percent(Frac(Cardinality(overlap), Cardinality(job_skills))),
              overlap |-> SetToList(overlap),
              gaps |-> SetToList(gaps)]

_calculate_skill_score(resume_, job_) ==
    LET rs == OrEmptyList(resume_.skills)
        js == OrEmptyList(job_.skills_required)
        resume_skills == {Lower(rs[i]) : i \in 1..Len(rs)}
        job_skills == {Lower(js[i]) : i \in 1..Len(js)}
        overlap == resume_skills \cap job_skills
        gaps == job_skills \ resume_skills
    IN  IF job_skills = {}
        THEN [score |-> FracOfInt(100),
              overlap |-> SetToList(resume_skills),
              gaps |-> <<>>]
        ELSE [score |-> Percent(Frac(Cardinality(overlap), Cardinality(job_skills))),
              overlap |-> SetToList(overlap),
              gaps |-> SetToList(gaps)]

\* No call inside the try block raises in this model (embed_text handles a
\* failing encode itself), so the except branch returns nothing here.
_calculate_semantic_score(self_model, resume_, job_, raises1, raises2) ==
    LET resume_text == OrElse(resume_.raw_text, <<>>)
        job_text == job_.title \o <<" ">> \o job_.description \o <<" ">>
                    \o OrElse(job_.requirements, <<>>)
    IN  IF resume_text = <<>> \/ job_text = <<>>
        THEN FracOfInt(50)
        ELSE LET resume_embedding == embed_text(self_model, resume_text, raises1)
                 job_embedding == embed_text(self_model, job_text, raises2)
             IN  Percent(compute_similarity(resume_embedding, job_embedding))

\* variant: the ratio is returned without the early return and the cap
_calculate_experience_score_unclamped(resume_, job_) ==
    LET resume_exp == OrZero(resume_.experience_years)
        required_exp == OrZero(job_.experience_required)
    IN  IF required_exp = 0 THEN FracOfInt(100)
        ELSE Percent(Frac(resume_exp, required_exp))

\* variant: the ratio is taken by integer division
_calculate_experience_score_floordiv(resume_, job_) ==
    LET resume_exp == OrZero(resume_.experience_years)
        required_exp == OrZero(job_.experience_required)
    IN  IF required_exp = 0 THEN FracOfInt(100)
        ELSE IF resume_exp >= required_exp THEN FracOfInt(100)
        ELSE FracMin(FracOfInt(100), Percent(FracOfInt(resume_exp \div required_exp)))

_calculate_experience_score(resume_, job_) ==
    LET resume_exp == OrZero(resume_.experience_years)
        required_exp == OrZero(job_.experience_required)
    IN  IF required_exp = 0 THEN FracOfInt(100)
        ELSE IF resume_exp >= required_exp THEN FracOfInt(100)
        ELSE FracMin(FracOfInt(100), Percent(Frac(resume_exp, required_exp)))

K_high_school == <<"h","i","g","h"," ","s","c","h","o","o","l">>

K_associate == <<"a","s","s","o","c","i","a","t","e">>

K_bachelor == <<"b","a","c","h","e","l","o","r">>

K_master == <<"m","a","s","t","e","r">>

K_phd == <<"p","h","d">>

K_doctorate == <<"d","o","c","t","o","r","a","t","e">>

\* the dict edu_levels, in its insertion (= iteration) order
edu_levels ==
    << [key |-> K_high_school, level |-> 1],
       [key |-> K_associate,   level |-> 2],
       [key |-> K_bachelor,    level |-> 3],
       [key |-> K_master,      level |-> 4],
       [key |-> K_phd,         level |-> 5],
       [key |-> K_doctorate,   level |-> 5] >>

\* variant: the highest level among the keywords found, not the first
FirstLevelIn_highest(text) ==
    LET hits == {i \in 1..Len(edu_levels) : Contains(text, edu_levels[i].key)}
    IN  IF hits = {} THEN 0
        ELSE edu_levels[CHOOSE i \in hits :
                          \A k \in hits : edu_levels[k].level <= edu_levels[i].level].level

\* for key, level in edu_levels.items(): if key in text: ...; break
FirstLevelIn(text) ==
    LET hits == {i \in 1..Len(edu_levels) : Contains(text, edu_levels[i].key)}
    IN  IF hits = {} THEN 0
        ELSE edu_levels[CHOOSE i \in hits : \A k \in hits : i <= k].level

\* str(edu_entry.get("degree", "")).lower()
DegreeOf(edu_entry) ==
    IF "degree" \in DOMAIN edu_entry THEN Lower(edu_entry.degree) ELSE <<>>

\* the nested loop: max level over all entries and all keys in the degree
CandidateLevel(resume_edu) ==
    LET levels == {edu_levels[i].level :
                     i \in {k \in 1..Len(edu_levels) :
                              \E e \in 1..Len(resume_edu) :
                                  Contains(DegreeOf(resume_edu[e]), edu_levels[k].key)}}
    IN  IF levels = {} THEN 0
        ELSE CHOOSE m \in levels : \A l \in levels : l <= m

_calculate_education_score(resume_, job_) ==
    LET required_edu == Lower(OrElse(job_.education_required, <<>>))
        resume_edu == OrEmptyDicts(resume_.education)
        required_level == FirstLevelIn(required_edu)
        candidate_level == CandidateLevel(resume_edu)
    IN  IF required_edu = <<>> THEN FracOfInt(100)
        ELSE IF required_level = 0 THEN FracOfInt(100)
        ELSE IF candidate_level >= required_level THEN FracOfInt(100)
        ELSE Percent(Frac(candidate_level, required_level))

Part(text, items, n) == [text |-> text, items |-> items, n |-> n]

\* variant: the sentence is chosen by the score rounded to two decimals
_generate_explanation_rounded(overall_score, skill_overlap, skill_gaps, experience_match, education_match) ==
    (IF Round2(overall_score) >= 8000
       THEN << Part("Excellent match!", <<>>, 0) >>
     ELSE IF Round2(overall_score) >= 6000
       THEN << Part("Good match with room for improvement.", <<>>, 0) >>
     ELSE IF Round2(overall_score) >= 4000
       THEN << Part("Moderate match. Consider upskilling.", <<>>, 0) >>
     ELSE << Part("Limited match. Significant gaps identified.", <<>>, 0) >>)
    \o (IF skill_overlap # <<>>
          THEN << Part("Matching skills: ", Take(skill_overlap, 5), 0) >>
               \o (IF Len(skill_overlap) > 5
                     THEN << Part("...and n more.", <<>>, Len(skill_overlap) - 5) >>
                     ELSE <<>>)
          ELSE <<>>)
    \o (IF skill_gaps # <<>>
          THEN << Part("Skills to develop: ", Take(skill_gaps, 5), 0) >>
          ELSE <<>>)
    \o (IF experience_match
          THEN << Part("Experience level meets requirements.", <<>>, 0) >>
          ELSE << Part("Additional experience may be beneficial.", <<>>, 0) >>)
    \o (IF education_match
          THEN << Part("Education requirements satisfied.", <<>>, 0) >>
          ELSE <<>>)

\* _generate_explanation; overall_score is the unrounded weighted sum
_generate_explanation(overall_score, skill_overlap, skill_gaps, experience_match, education_match) ==
    (IF FracLE(FracOfInt(80), overall_score)
       THEN << Part("Excellent match!", <<>>, 0) >>
     ELSE IF FracLE(FracOfInt(60), overall_score)
       THEN << Part("Good match with room for improvement.", <<>>, 0) >>
     ELSE IF FracLE(FracOfInt(40), overall_score)
       THEN << Part("Moderate match. Consider upskilling.", <<>>, 0) >>
     ELSE << Part("Limited match. Significant gaps identified.", <<>>, 0) >>)
    \o (IF skill_overlap # <<>>
          THEN << Part("Matching skills: ", Take(skill_overlap, 5), 0) >>
               \o (IF Len(skill_overlap) > 5
                     THEN << Part("...and n more.", <<>>, Len(skill_overlap) - 5) >>
                     ELSE <<>>)
          ELSE <<>>)
    \o (IF skill_gaps # <<>>
          THEN << Part("Skills to develop: ", Take(skill_gaps, 5), 0) >>
          ELSE <<>>)
    \o (IF experience_match
          THEN << Part("Experience level meets requirements.", <<>>, 0) >>
          ELSE << Part("Additional experience may be beneficial.", <<>>, 0) >>)
    \o (IF education_match
          THEN << Part("Education requirements satisfied.", <<>>, 0) >>
          ELSE <<>>)

\* the weighted overall score (matching_service.py:55-61)
weighted_overall(skill, semantic, experience, education) ==
    FracAdd(FracAdd(FracMul(skill, WEIGHTS.skill_score),
                    FracMul(semantic, WEIGHTS.semantic_score)),
            FracAdd(FracMul(experience, WEIGHTS.experience_score),
                    FracMul(education, WEIGHTS.education_score)))

\* variant: the semantic contribution is weighted with the skill weight
feature_importance_wrongweight(skill, semantic, experience, education) ==
    [skills |-> FracMul(WEIGHTS.skill_score, PerHundred(skill)),
     semantic |-> FracMul(WEIGHTS.skill_score, PerHundred(semantic)),
     experience |-> FracMul(WEIGHTS.experience_score, PerHundred(experience)),
     education |-> FracMul(WEIGHTS.education_score, PerHundred(education))]

\* the feature_importance dict (matching_service.py:72-78)
feature_importance(skill, semantic, experience, education) ==
    [skills |-> FracMul(WEIGHTS.skill_score, PerHundred(skill)),
     semantic |-> FracMul(WEIGHTS.semantic_score, PerHundred(semantic)),
     experience |-> FracMul(WEIGHTS.experience_score, PerHundred(experience)),
     education |-> FracMul(WEIGHTS.education_score, PerHundred(education))]

\* calculate_match; raises1, raises2: whether _model.encode raises in the
\* first and in the second embed_text call.  status "raise": the call
\* raised instead of returning.
calculate_match(self_model, resume_, job_, raises1, raises2) ==
    IF SkillsRaise(resume_, job_) THEN [status |-> "raise"]
    ELSE
    LET skill_result == _calculate_skill_score(resume_, job_)
        semantic_score == _calculate_semantic_score(self_model, resume_, job_, raises1, raises2)
        experience_score == _calculate_experience_score(resume_, job_)
        education_score == _calculate_education_score(resume_, job_)
        overall_score ==
            weighted_overall(skill_result.score, semantic_score,
                             experience_score, education_score)
    IN  [status |-> "ok",
         overall_score |-> Round2(overall_score),
         skill_score |-> Round2(skill_result.score),
         experience_score |-> Round2(experience_score),
         education_score |-> Round2(education_score),
         semantic_score |-> Round2(semantic_score),
         skill_overlap |-> skill_result.overlap,
         skill_gaps |-> skill_result.gaps,
         explanation |->
             _generate_explanation(overall_score, skill_result.overlap,
                                   skill_result.gaps,
                                   FracLT(FracOfInt(70), experience_score),
                                   FracLT(FracOfInt(70), education_score)),
         feature_importance |->
             feature_importance(skill_result.score, semantic_score,
                                experience_score, education_score)]

-----------------------------------------------------------------------------
(* Inputs of the scorer                                                    *)

MaxYears == 2

S_python == <<"p","y","t","h","o","n">>

S_Python == <<"P","y","t","h","o","n">>

S_PYTHON == <<"P","Y","T","H","O","N">>

S_sql == <<"s","q","l">>

S_SQL == <<"S","Q","L">>

S_docker == <<"d","o","c","k","e","r">>

S_Docker == <<"D","o","c","k","e","r">>

S_go == <<"g","o">>

S_java == <<"j","a","v","a">>

S_rust == <<"r","u","s","t">>

E_MBA == <<"M","B","A">>

E_Master_or_Bachelor == <<"M","a","s","t","e","r","/","B","a","c","h","e","l","o","r">>

E_PhD == <<"P","h","D">>

E_High_School == <<"H","i","g","h"," ","S","c","h","o","o","l">>

D_Bachelor == <<"B","a","c","h","e","l","o","r">>

D_Associate == <<"A","s","s","o","c","i","a","t","e">>

D_BS == <<"B",".","S",".">>

T_py_dev == <<"p","y"," ","d","e","v">>

T_web_dev == <<"w","e","b"," ","d","e","v">>

T_Dev == <<"D","e","v">>

T_DBA == <<"D","B","A">>

T_code == <<"c","o","d","e">>

T_data == <<"d","a","t","a">>

\* Resume.skills (models/resume.py:49)
ResumeSkillsPool ==
    { NoneList,
      <<S_python, S_sql>>,
      <<S_Python, S_Docker, S_SQL, S_PYTHON>> }

\* Job.skills_required (models/job.py:48)
JobSkillsPool ==
    { <<>>,
      <<S_python, S_sql, S_docker>>,
      <<S_Python, S_go, S_python>> }

\* Resume.experience_years (models/resume.py:50): None or years >= 0
YearsPool == {<<>>} \cup {<<n>> : n \in 0..MaxYears}

\* Job.experience_required (models/job.py:49): None or years >= 0
RequiredYearsPool == {<<>>, <<0>>, <<1>>, <<5>>}

\* Resume.education (models/resume.py:51): list of dicts from the parser
EducationPool ==
    { NoneDicts,
      << [context |-> D_BS], [degree |-> D_Bachelor] >>,
      << [degree |-> D_Associate], [degree |-> E_High_School] >> }

\* Job.education_required (models/job.py:50)
EducationRequiredPool ==
    { NoneVal, E_MBA, E_Master_or_Bachelor, E_PhD }

\* Resume.raw_text (models/resume.py:45)
RawTextPool == { NoneVal, T_py_dev }

SixSkills == <<S_python, S_sql, S_docker, S_go, S_java, S_rust>>

\* a resume listing six skills, and one listing none; both without
\* experience or education, both with the same text
WideResume ==
    [skills |-> SixSkills, experience_years |-> <<0>>,
     education |-> NoneDicts, raw_text |-> T_web_dev]

BareResume ==
    [skills |-> NoneList, experience_years |-> <<0>>,
     education |-> NoneDicts, raw_text |-> T_web_dev]

Resumes ==
    [skills : ResumeSkillsPool, experience_years : YearsPool,
     education : EducationPool, raw_text : RawTextPool]
    \cup {WideResume, BareResume}

\* a posting whose title and description are empty strings (JobBase asks
\* for two strs of any length, schemas/job.py:13-17) and without requirements
EmptyTextJob ==
    [title |-> <<>>, description |-> <<>>, requirements |-> NoneVal,
     skills_required |-> <<S_python, S_sql, S_docker>>,
     experience_required |-> <<1>>, education_required |-> NoneVal]

\* a posting that requires six skills
WideJob ==
    [title |-> T_Dev, description |-> T_code, requirements |-> NoneVal,
     skills_required |-> SixSkills,
     experience_required |-> <<>>, education_required |-> NoneVal]

Jobs ==
    [title : {T_Dev}, description : {T_code}, requirements : {NoneVal},
     skills_required : JobSkillsPool, experience_required : RequiredYearsPool,
     education_required : EducationRequiredPool]
    \cup {EmptyTextJob, WideJob}

-----------------------------------------------------------------------------
(* The scorer on its own: a MatchingService is constructed and             *)
(* calculate_match is called on a resume and a job, then called again on   *)
(* the same two.                                                           *)

InitProcess ==
    /\ EMBEDDINGS_AVAILABLE \in BOOLEAN
    /\ _model = "None"

\* no MatchingService constructed, nothing scored
ScorerIdle ==
    /\ svc = FALSE
    /\ resume = <<>>
    /\ job = <<>>
    /\ result = <<>>

\* empty tables, no request
ApiIdle ==
    /\ matches = <<>>
    /\ recommendations = <<>>
    /\ requests = <<>>

\* no RecommendationService constructed, generate not called
RankerIdle ==
    /\ rec_svc = FALSE
    /\ ranked = <<>>

\* the parser's libraries installed, no parser harness call made
ParserIdle ==
    /\ PyPDF2 = TRUE
    /\ Document = TRUE
    /\ parse_call = <<>>
    /\ sections_call = <<>>
    /\ years_call = <<>>

\* _extract_education not called
EducationIdle == education_call = <<>>

\* no cache file, no stored job, no JobMonitor constructed, no run
MonitorIdle ==
    /\ cache_file = <<>>
    /\ stored_jobs = <<>>
    /\ seen_jobs = <<>>
    /\ monitor_runs = <<>>

\* spaCy not loaded, extract not called
ExtractorIdle ==
    /\ nlp = FALSE
    /\ extract_call = <<>>

\* generate_skill_gap_analysis not called
GapIdle == gap_call = <<>>

\* no embedding harness call made
EmbedIdle ==
    /\ constructed = 0
    /\ loads = 0
    /\ vectors = <<>>

InitScorer ==
    /\ InitProcess
    /\ ScorerIdle
    /\ EducationIdle
    /\ MonitorIdle
    /\ ExtractorIdle
    /\ GapIdle
    /\ ApiIdle
    /\ RankerIdle
    /\ EmbedIdle
    /\ ParserIdle

\* MatchingService.__init__: EmbeddingService() and SkillExtractorService()
MatchingService_init(loadOk) ==
    /\ _model' = EmbeddingService_init(loadOk)
    /\ svc' = TRUE
    /\ UNCHANGED <<EMBEDDINGS_AVAILABLE, resume, job, result, apiVars, rankerVars, embedVars, parserVars, gapVars, extractorVars, monitorVars, educationVars>>

\* await matching_service.calculate_match(resume, job)
ScoreMatch(r, j, raises1, raises2) ==
    /\ svc
    /\ result = <<>>
    /\ resume' = <<r>>
    /\ job' = <<j>>
    /\ result' = <<calculate_match(_model, r, j, raises1, raises2)>>
    /\ UNCHANGED <<EMBEDDINGS_AVAILABLE, _model, svc, apiVars, rankerVars, embedVars, parserVars, gapVars, extractorVars, monitorVars, educationVars>>

\* the same call once more, resume and job unchanged
ScoreAgain(raises1, raises2) ==
    /\ svc
    /\ result # <<>>
    /\ result' = <<calculate_match(_model, resume[1], job[1], raises1, raises2)>>
    /\ UNCHANGED <<EMBEDDINGS_AVAILABLE, _model, svc, resume, job, apiVars, rankerVars, embedVars, parserVars, gapVars, extractorVars, monitorVars, educationVars>>

NextScorer ==
    \/ \E loadOk \in BOOLEAN : MatchingService_init(loadOk)
    \/ /\ svc /\ result = <<>>
       /\ \E r \in Resumes, j \in Jobs, raises1, raises2 \in BOOLEAN :
              ScoreMatch(r, j, raises1, raises2)
    \/ \E raises1, raises2 \in BOOLEAN : ScoreAgain(raises1, raises2)

SpecScorer == InitScorer /\ [][NextScorer]_vars

-----------------------------------------------------------------------------
(* Properties of the scorer, checked under SpecScorer.  Returned scores    *)
(* are in hundredths: 10000 is 100.00.                                     *)

Scored == result # <<>> /\ result[1].status = "ok"

Range(q) == {q[i] : i \in 1..Len(q)}

SameCI(a, b) == Lower(a) = Lower(b)

\* h hundredths is x rounded to two decimals
NearestHundredth(h, x) == 2 * Abs(h * x.d - 100 * x.n) <= x.d

ScoreFields ==
    {"overall_score", "skill_score", "semantic_score",
     "experience_score", "education_score"}

\* C1: for every resume and job, overall_score and each of the four
\* component scores of the result of calculate_match lie in [0, 100].
C1_ScoresInRange ==
    Scored => \A f \in ScoreFields : result[1][f] \in 0..10000

\* C1 witness: a result with a component at 0, one at 100 and an overall
\* score strictly between.
C1_Witness ==
    /\ Scored
    /\ result[1].skill_score = 0
    /\ result[1].experience_score = 10000
    /\ result[1].semantic_score \notin {0, 5000, 10000}
    /\ result[1].overall_score \in 1..9999

\* C2: when job.skills_required is non-empty, every required skill is,
\* compared case-insensitively, in exactly one of skill_overlap and
\* skill_gaps, the two lists are disjoint, and neither holds anything else.
C2_OverlapGapsPartitionRequired ==
    (Scored /\ OrEmptyList(job[1].skills_required) # <<>>) =>
        LET required == Range(OrEmptyList(job[1].skills_required))
            overlap == Range(result[1].skill_overlap)
            gaps == Range(result[1].skill_gaps)
        IN  /\ \A x \in required :
                   (\E o \in overlap : SameCI(o, x)) # (\E g \in gaps : SameCI(g, x))
            /\ \A y \in overlap \cup gaps : \E x \in required : SameCI(y, x)
            /\ \A o \in overlap, g \in gaps : ~SameCI(o, g)
            /\ Len(result[1].skill_overlap) = Cardinality(overlap)
            /\ Len(result[1].skill_gaps) = Cardinality(gaps)

\* C2 witness: required skills written in two cases, some met, some not.
C2_Witness ==
    /\ Scored
    /\ job[1].skills_required = <<S_Python, S_go, S_python>>
    /\ result[1].skill_overlap = <<S_python>>
    /\ result[1].skill_gaps = <<S_go>>

\* the weighted sum of the result's own (rounded) component scores, in
\* units of 1/10000
WeightedSumOfReturned ==
    40 * result[1].skill_score + 30 * result[1].semantic_score
    + 20 * result[1].experience_score + 10 * result[1].education_score

\* C3 as stated: the returned overall_score equals 0.40*skill_score +
\* 0.30*semantic_score + 0.20*experience_score + 0.10*education_score of
\* the same result.
C3_OverallEqualsWeightedSumOfResult ==
    Scored => 100 * result[1].overall_score = WeightedSumOfReturned

\* C3 amended: the four weights are 0.40, 0.30, 0.20, 0.10 and sum to 1.0,
\* and the returned overall_score (the weighted sum of the unrounded
\* components, rounded to two decimals) is within 0.01 of the weighted sum
\* of the returned, rounded component scores.
C3_OverallWithinRounding ==
    /\ FracAdd(FracAdd(WEIGHTS.skill_score, WEIGHTS.semantic_score),
               FracAdd(WEIGHTS.experience_score, WEIGHTS.education_score))
       = FracOfInt(1)
    /\ Scored => Abs(100 * result[1].overall_score - WeightedSumOfReturned) <= 100

\* C3 witness: a result whose overall score differs from the weighted sum of
\* its rounded components.
C3_Witness ==
    /\ Scored
    /\ 100 * result[1].overall_score # WeightedSumOfReturned

RequiredCI == {Lower(x) : x \in Range(OrEmptyList(job[1].skills_required))}

OverlapCI ==
    {s \in RequiredCI : \E x \in Range(OrEmptyList(resume[1].skills)) : Lower(x) = s}

\* C4: skill_score is 100 when job.skills_required is empty; otherwise it is
\* |overlap| / |job.skills_required| * 100 (to two decimals), overlap being
\* the case-insensitive intersection of resume.skills and
\* job.skills_required, and the gaps the rest of the required skills.
C4_SkillScore ==
    Scored =>
        IF RequiredCI = {}
        THEN result[1].skill_score = 10000
        ELSE /\ NearestHundredth(result[1].skill_score,
                    Frac(100 * Cardinality(OverlapCI), Cardinality(RequiredCI)))
             /\ Range(result[1].skill_overlap) = OverlapCI
             /\ Range(result[1].skill_gaps) = RequiredCI \ OverlapCI

\* C4 witness: resume {python, sql} against required {python, sql, docker}
\* gives 66.67, overlap {python, sql}, gaps {docker}.
C4_Witness ==
    /\ Scored
    /\ resume[1].skills = <<S_python, S_sql>>
    /\ job[1].skills_required = <<S_python, S_sql, S_docker>>
    /\ result[1].skill_score = 6667
    /\ Range(result[1].skill_overlap) = {S_python, S_sql}
    /\ result[1].skill_gaps = <<S_docker>>

\* C5: experience_score is 100 when job.experience_required is 0 or missing
\* or resume.experience_years >= job.experience_required; otherwise it is
\* min(100, resume.experience_years / job.experience_required * 100).
C5_ExperienceScore ==
    Scored =>
        LET years == IF resume[1].experience_years = <<>> THEN 0
                     ELSE resume[1].experience_years[1]
            required == job[1].experience_required
        IN  IF required = <<>> \/ required = <<0>> \/ years >= required[1]
            THEN result[1].experience_score = 10000
            ELSE /\ NearestHundredth(result[1].experience_score,
                                     Frac(100 * years, required[1]))
                 /\ result[1].experience_score <= 10000

\* C5 witness: required 5, resume 2 gives 40.0.
C5_Witness ==
    /\ Scored
    /\ job[1].experience_required = <<5>>
    /\ resume[1].experience_years = <<2>>
    /\ result[1].experience_score = 4000

\* the required level as the claim words it: the first keyword, in the
\* order high school, associate, bachelor, master, phd, doctorate, that
\* occurs in the text
ClaimRequiredLevel(text) ==
    IF Contains(text, K_high_school) THEN 1
    ELSE IF Contains(text, K_associate) THEN 2
    ELSE IF Contains(text, K_bachelor) THEN 3
    ELSE IF Contains(text, K_master) THEN 4
    ELSE IF Contains(text, K_phd) THEN 5
    ELSE IF Contains(text, K_doctorate) THEN 5
    ELSE 0

KeywordLevels ==
    { <<K_high_school, 1>>, <<K_associate, 2>>, <<K_bachelor, 3>>,
      <<K_master, 4>>, <<K_phd, 5>>, <<K_doctorate, 5>> }

\* m is the maximum level found among the degree strings (0 if none)
IsClaimCandidateLevel(m, education) ==
    LET found == {kl \in KeywordLevels :
                    \E i \in 1..Len(education) :
                        /\ "degree" \in DOMAIN education[i]
                        /\ Contains(Lower(education[i].degree), kl[1])}
    IN  /\ \A kl \in found : kl[2] <= m
        /\ IF found = {} THEN m = 0 ELSE \E kl \in found : kl[2] = m

\* C6: education_score is 100 when job.education_required is empty or holds
\* no level keyword; otherwise, with the required level that of the first
\* keyword in the fixed order found in job.education_required and the
\* candidate level the maximum found among the degree strings, it is 100 if
\* candidate >= required, else candidate / required * 100.
C6_EducationScore ==
    Scored =>
        LET text == IF job[1].education_required = NoneVal THEN <<>>
                    ELSE Lower(job[1].education_required)
            education == IF resume[1].education = NoneDicts THEN <<>>
                         ELSE resume[1].education
            required == ClaimRequiredLevel(text)
        IN  IF required = 0
            THEN result[1].education_score = 10000
            ELSE \E candidate \in 0..5 :
                    /\ IsClaimCandidateLevel(candidate, education)
                    /\ IF candidate >= required
                       THEN result[1].education_score = 10000
                       ELSE NearestHundredth(result[1].education_score,
                                             Frac(100 * candidate, required))

\* C6 witness: "Master/Bachelor" requires level 3 (bachelor comes first in
\* the order), and a candidate whose degrees are Associate and High School
\* has level 2: 66.67.
C6_Witness ==
    /\ Scored
    /\ job[1].education_required = E_Master_or_Bachelor
    /\ resume[1].education = << [degree |-> D_Associate], [degree |-> E_High_School] >>
    /\ result[1].education_score = 6667

FeatureSum ==
    FracAdd(FracAdd(result[1].feature_importance.skills,
                    result[1].feature_importance.semantic),
            FracAdd(result[1].feature_importance.experience,
                    result[1].feature_importance.education))

\* C7 as stated: feature_importance[k] = weight[k] * (component_score[k]/100)
\* for the component scores of the same result, and the four values sum to
\* the result's overall_score / 100.
C7_FeatureImportanceOfResult ==
    Scored =>
        /\ result[1].feature_importance.skills
               = Frac(40 * result[1].skill_score, 1000000)
        /\ result[1].feature_importance.semantic
               = Frac(30 * result[1].semantic_score, 1000000)
        /\ result[1].feature_importance.experience
               = Frac(20 * result[1].experience_score, 1000000)
        /\ result[1].feature_importance.education
               = Frac(10 * result[1].education_score, 1000000)
        /\ FeatureSum = Frac(result[1].overall_score, 10000)

\* C7 amended: feature_importance[k] = weight[k] * (c[k]/100) for the
\* unrounded component c[k]: each returned component score is
\* 100 * feature_importance[k] / weight[k] rounded to two decimals, and the
\* returned overall_score is 100 times the sum of the four values, rounded
\* to two decimals.
C7_FeatureImportanceUnrounded ==
    Scored =>
        /\ NearestHundredth(result[1].skill_score,
               FracMul(result[1].feature_importance.skills, Frac(10000, 40)))
        /\ NearestHundredth(result[1].semantic_score,
               FracMul(result[1].feature_importance.semantic, Frac(10000, 30)))
        /\ NearestHundredth(result[1].experience_score,
               FracMul(result[1].feature_importance.experience, Frac(10000, 20)))
        /\ NearestHundredth(result[1].education_score,
               FracMul(result[1].feature_importance.education, Frac(10000, 10)))
        /\ NearestHundredth(result[1].overall_score, Percent(FeatureSum))

\* C7 witness: two of three required skills met: the skills contribution is
\* 0.4 * 2/3 = 4/15 while the returned skill_score is 66.67.
C7_Witness ==
    /\ Scored
    /\ result[1].skill_score = 6667
    /\ result[1].feature_importance.skills = Frac(4, 15)

\* C8: calculate_match called again with the resume and the job unchanged
\* yields an identical result.
C8_Idempotent ==
    [][(result # <<>> /\ result' # <<>> /\ resume' = resume /\ job' = job)
         => result' = result]_vars

-----------------------------------------------------------------------------
(* Recommendation Ranker: backend/services/recommendation_service.py       *)

\* variant: one item more than asked for
SliceTo_onemore(s, n) == Take(s, n + 1)

\* Python seq[:n] for any integer n: a negative n drops the last -n items
SliceTo(s, n) ==
    IF n >= 0 THEN Take(s, n)
    ELSE IF Len(s) + n <= 0 THEN <<>> ELSE SubSeq(s, 1, Len(s) + n)

\* No filter: filters is None or {} (`if not filters`), or the key's value
\* is falsy.  A filters dict is a record of the five keys; an absent text
\* key is NoneVal, an absent number <<>>.
NoFilters == <<>>

\* variant: the max_salary filter is not applied
_apply_filters_nomax(jobs, filters) ==
    IF filters = NoFilters THEN jobs
    ELSE
    LET Keep(j) ==
            /\ Falsy(filters.location)
               \/ Contains(Lower(OrElse(j.location, <<>>)), Lower(filters.location))
            /\ Falsy(filters.job_type)
               \/ Lower(OrElse(j.job_type, <<>>)) = Lower(filters.job_type)
            /\ Falsy(filters.remote_option)
               \/ Lower(OrElse(j.remote_option, <<>>)) = Lower(filters.remote_option)
            /\ OrZero(filters.min_salary) = 0
               \/ OrZero(j.salary_min) >= filters.min_salary[1]
    IN  SelectSeq(jobs, Keep)

_apply_filters(jobs, filters) ==
    IF filters = NoFilters THEN jobs
    ELSE
    LET Keep(j) ==
            /\ Falsy(filters.location)
               \/ Contains(Lower(OrElse(j.location, <<>>)), Lower(filters.location))
            /\ Falsy(filters.job_type)
               \/ Lower(OrElse(j.job_type, <<>>)) = Lower(filters.job_type)
            /\ Falsy(filters.remote_option)
               \/ Lower(OrElse(j.remote_option, <<>>)) = Lower(filters.remote_option)
            /\ OrZero(filters.min_salary) = 0
               \/ OrZero(j.salary_min) >= filters.min_salary[1]
            /\ OrZero(filters.max_salary) = 0
               \/ (OrZero(j.salary_max) # 0 /\ j.salary_max[1] <= filters.max_salary[1])
    IN  SelectSeq(jobs, Keep)

\* variant: the loop ends at the first job whose scoring raises
RECURSIVE ScoreJobs_stop(_, _, _, _)
ScoreJobs_stop(self_model, resume_, jobs, raises) ==
    IF jobs = <<>> THEN <<>>
    ELSE LET match_result == calculate_match(self_model, resume_, Head(jobs), raises, raises)
         IN  IF match_result.status = "raise" THEN <<>>
             ELSE << [job |-> Head(jobs),
                      score |-> match_result.overall_score,
                      skill_overlap |-> match_result.skill_overlap,
                      skill_gaps |-> match_result.skill_gaps,
                      explanation |-> match_result.explanation] >>
                  \o ScoreJobs_stop(self_model, resume_, Tail(jobs), raises)

\* the scoring loop: one calculate_match per filtered job, in order; a job
\* whose scoring raises is skipped
RECURSIVE ScoreJobs(_, _, _, _)
ScoreJobs(self_model, resume_, jobs, raises) ==
    IF jobs = <<>> THEN <<>>
    ELSE LET match_result == calculate_match(self_model, resume_, Head(jobs), raises, raises)
             rest == ScoreJobs(self_model, resume_, Tail(jobs), raises)
         IN  IF match_result.status = "raise" THEN rest
             ELSE << [job |-> Head(jobs),
                      score |-> match_result.overall_score,
                      skill_overlap |-> match_result.skill_overlap,
                      skill_gaps |-> match_result.skill_gaps,
                      explanation |-> match_result.explanation] >> \o rest

\* variant: a descending sort that puts the later of two equal scores first
RECURSIVE SortByScore_unstable(_)
SortByScore_unstable(items) ==
    IF items = <<>> THEN <<>>
    ELSE LET sorted == SortByScore_unstable(SubSeq(items, 1, Len(items) - 1))
             last == items[Len(items)]
             ahead == {i \in 1..Len(sorted) : sorted[i].score > last.score}
             k == IF ahead = {} THEN 0 ELSE CHOOSE i \in ahead : \A m \in ahead : m <= i
         IN  SubSeq(sorted, 1, k) \o <<last>> \o SubSeq(sorted, k + 1, Len(sorted))

\* scored_jobs.sort(key=score, reverse=True): stable, equal scores keep
\* their order
RECURSIVE SortByScore(_)
SortByScore(items) ==
    IF items = <<>> THEN <<>>
    ELSE LET sorted == SortByScore(SubSeq(items, 1, Len(items) - 1))
             last == items[Len(items)]
             ahead == {i \in 1..Len(sorted) : sorted[i].score >= last.score}
             k == IF ahead = {} THEN 0 ELSE CHOOSE i \in ahead : \A m \in ahead : m <= i
         IN  SubSeq(sorted, 1, k) \o <<last>> \o SubSeq(sorted, k + 1, Len(sorted))

_generate_highlights(item) ==
    LET score == item.score
        a == IF score >= 8000 THEN <<"Excellent match for your profile">>
             ELSE IF score >= 7000 THEN <<"Strong alignment with your skills">>
             ELSE IF score >= 6000 THEN <<"Good growth opportunity">>
             ELSE <<>>
        b == IF Len(item.skill_overlap) >= 5 THEN <<"n skills match required skills">>
             ELSE IF Len(item.skill_overlap) >= 3 THEN <<"Core skills aligned">>
             ELSE <<>>
        c == IF Len(item.skill_gaps) <= 2 THEN <<"Minimal skill gaps">>
             ELSE IF Len(item.skill_gaps) <= 5 THEN <<"Achievable skill development path">>
             ELSE <<>>
    IN  Take(a \o b \o c, 3)

\* f"{score:.0f}" of a score held in hundredths
Round0(h) ==
    LET q == h \div 100
        r == h % 100
    IN  IF r < 50 THEN q ELSE IF r > 50 THEN q + 1
        ELSE IF q % 2 = 0 THEN q ELSE q + 1

_generate_recommendation_explanation(item, rank) ==
    (IF rank = 1
       THEN << Part("Top recommendation with n% match.", <<>>, Round0(item.score)) >>
     ELSE IF rank <= 3
       THEN << Part("Highly recommended (n% match).", <<>>, Round0(item.score)) >>
     ELSE << Part("Good fit (n% match).", <<>>, Round0(item.score)) >>)
    \o (IF item.skill_overlap # <<>>
          THEN (IF Len(item.skill_overlap) > 3
                  THEN << Part("Your ... and n other skills align well.",
                               Take(item.skill_overlap, 3), Len(item.skill_overlap) - 3) >>
                  ELSE << Part("Your ... skills are relevant.", item.skill_overlap, 0) >>)
          ELSE <<>>)
    \o (IF item.skill_gaps # <<>>
          THEN << Part("Opportunity to develop: ", Take(item.skill_gaps , 2), 0) >>
          ELSE <<>>)

RecommendedJob(item, rank) ==
    [job_id |-> item.job.id,
     rank |-> rank,
     score |-> item.score,
     title |-> item.job.title,
     company |-> item.job.company,
     location |-> item.job.location,
     salary_range |->
         IF OrZero(item.job.salary_min) # 0 /\ OrZero(item.job.salary_max) # 0
         THEN <<item.job.salary_min[1], item.job.salary_max[1]>> ELSE <<>>,
     explanation |-> _generate_recommendation_explanation(item, rank),
     skill_overlap |-> Take(item.skill_overlap, 5),
     skill_gaps |-> Take(item.skill_gaps, 5),
     match_highlights |-> _generate_highlights(item)]

\* RecommendationService.generate; raises: _model.encode raises during
\* this call.  Returns the recommendations and, for the record, the ids of
\* the jobs calculate_match was called on.
RankJobs(top_jobs) ==
    [rank \in 1..Len(top_jobs) |-> RecommendedJob(top_jobs[rank], rank)]

JobIds(jobs) == [i \in 1..Len(jobs) |-> jobs[i].id]

\* generate from the scoring loop on (recommendation_service.py:57-108)
generate_scored(self_model, resume_, filtered_jobs, limit, raises) ==
    [recommendations |->
         RankJobs(SliceTo(SortByScore(ScoreJobs(self_model, resume_, filtered_jobs, raises)),
                          limit)),
     scored |-> JobIds(filtered_jobs)]

generate(self_model, resume_, jobs, filters, limit, raises) ==
    generate_scored(self_model, resume_,
                    IF jobs = <<>> THEN <<>> ELSE _apply_filters(jobs, filters),
                    limit, raises)

-----------------------------------------------------------------------------
(* The API: POST /matches/calculate (backend/api/matches.py) and           *)
(* POST /recommendations/generate (backend/api/recommendations.py).        *)
(* Handlers are coroutines on one event loop: a handler runs alone between *)
(* two awaited database calls, and other handlers run while it waits.      *)
(* The tables resumes and jobs are not written by these two endpoints and  *)
(* are held fixed.                                                         *)

MaxRequests == 3

L_NYC == <<"N","Y","C">>

L_ny == <<"n","y">>

C_Acme == <<"A","c","m","e">>

DefaultLimit == 5

ResumesTable ==
    << [id |-> 1, user_id |-> 1, skills |-> <<S_python, S_sql>>,
        experience_years |-> <<2>>,
        education |-> << [degree |-> D_Associate] >>, raw_text |-> T_py_dev],
       [id |-> 2, user_id |-> 2, skills |-> <<S_Docker>>,
        experience_years |-> <<>>,
        education |-> NoneDicts, raw_text |-> NoneVal] >>

JobsTable ==
    << [id |-> 1, title |-> T_Dev, company |-> C_Acme, description |-> T_code,
        requirements |-> NoneVal, skills_required |-> <<S_python, S_sql, S_docker>>,
        experience_required |-> <<5>>, education_required |-> E_Master_or_Bachelor,
        location |-> L_NYC, job_type |-> NoneVal, remote_option |-> NoneVal,
        salary_min |-> <<50>>, salary_max |-> <<90>>, is_active |-> 1],
       [id |-> 2, title |-> T_DBA, company |-> C_Acme, description |-> T_data,
        requirements |-> S_sql, skills_required |-> <<S_SQL>>,
        experience_required |-> <<>>, education_required |-> NoneVal,
        location |-> NoneVal, job_type |-> NoneVal, remote_option |-> NoneVal,
        salary_min |-> <<>>, salary_max |-> <<>>, is_active |-> 1],
       [id |-> 3, title |-> T_Dev, company |-> C_Acme, description |-> T_data,
        requirements |-> NoneVal, skills_required |-> <<>>,
        experience_required |-> <<0>>, education_required |-> E_PhD,
        location |-> L_NYC, job_type |-> NoneVal, remote_option |-> NoneVal,
        salary_min |-> <<>>, salary_max |-> <<>>, is_active |-> 0] >>

Users == {1, 2}

RequestedResumeIds == {1}

RequestedJobIds == {1, 2}

RequestedMatchIds == {1, 2}

FiltersPool ==
    { NoFilters,
      [location |-> L_ny, job_type |-> NoneVal, remote_option |-> NoneVal,
       min_salary |-> <<>>, max_salary |-> <<>>] }

LimitPool == {1, DefaultLimit}

RequestIds == 1..MaxRequests

NewRequest ==
    [op |-> "none", pc |-> "new", user |-> 0, resume_id |-> 0, job_id |-> 0,
     match_id |-> 0, status |-> 0, body |-> <<>>, existing |-> <<>>, called |-> FALSE,
     created |-> FALSE, pending |-> <<>>, scored |-> <<>>, cached |-> {}]

Init ==
    /\ InitProcess
    /\ ScorerIdle
    /\ EducationIdle
    /\ MonitorIdle
    /\ ExtractorIdle
    /\ GapIdle
    /\ RankerIdle
    /\ EmbedIdle
    /\ ParserIdle
    /\ matches = <<>>
    /\ recommendations = <<>>
    /\ requests = [q \in RequestIds |-> NewRequest]

\* requests are taken up in the order of their numbers
CanStart(q) ==
    /\ requests[q].pc = "new"
    /\ IF q = 1 THEN TRUE ELSE requests[q - 1].pc # "new"

\* select(Resume).where(Resume.id == resume_id, Resume.user_id == user)
ResumeOf(resume_id, user) ==
    SelectSeq(ResumesTable, LAMBDA r : r.id = resume_id /\ r.user_id = user)

\* select(Match).where(Match.resume_id == ..., Match.job_id == ...)
MatchesOf(resume_id, job_id) ==
    SelectSeq(matches, LAMBDA m : m.resume_id = resume_id /\ m.job_id = job_id)

Respond(q, req, status, body) ==
    requests' = [requests EXCEPT ![q] = [req EXCEPT !.pc = "done",
                                                    !.status = status,
                                                    !.body = body]]

\* POST /calculate from its start to `await db.commit()` (matches.py:39-92).
\* scalar_one_or_none raises MultipleResultsFound on two or more rows, and
\* an exception leaving the handler is answered with status 500.
calculate_match_request(q, user, resume_id, job_id, loadOk, raises) ==
    LET req == [requests[q] EXCEPT !.op = "calculate", !.user = user,
                                   !.resume_id = resume_id, !.job_id = job_id]
        resume_rows == ResumeOf(resume_id, user)
        job_rows == SelectSeq(JobsTable, LAMBDA j : j.id = job_id)
        existing == MatchesOf(resume_id, job_id)
    IN  /\ CanStart(q)
        /\ UNCHANGED <<EMBEDDINGS_AVAILABLE, scorerVars, matches, recommendations, rankerVars, embedVars, parserVars, gapVars, extractorVars, monitorVars, educationVars>>
        /\ IF resume_rows = <<>> \/ job_rows = <<>>
           THEN /\ Respond(q, req, 404, <<>>)
                /\ UNCHANGED _model
           ELSE IF Len(existing) >= 2
           THEN /\ Respond(q, [req EXCEPT !.existing = existing], 500, <<>>)
                /\ UNCHANGED _model
           ELSE IF Len(existing) = 1
           THEN /\ Respond(q, [req EXCEPT !.existing = existing], 201, existing)
                /\ UNCHANGED _model
           ELSE /\ _model' = EmbeddingService_init(loadOk)
                /\ LET match_result ==
                           calculate_match(_model', resume_rows[1], job_rows[1], raises, raises)
                   IN  IF match_result.status = "raise"
                       THEN Respond(q, [req EXCEPT !.called = TRUE], 500, <<>>)
                       ELSE requests' =
                              [requests EXCEPT ![q] =
                                 [req EXCEPT !.pc = "commit", !.called = TRUE,
                                      !.pending = <<[resume_id |-> resume_id,
                                                     job_id |-> job_id,
                                                     match |-> match_result]>>]]

\* db.commit() inserts the row; db.refresh; return match (matches.py:92-97)
calculate_match_commit(q) ==
    /\ requests[q].pc = "commit"
    /\ requests[q].op = "calculate"
    /\ LET row == [id |-> Len(matches) + 1] @@ requests[q].pending[1]
       IN  /\ matches' = Append(matches, row)
           /\ Respond(q, [requests[q] EXCEPT !.created = TRUE, !.pending = <<>>],
                      201, <<row>>)
    /\ UNCHANGED <<EMBEDDINGS_AVAILABLE, _model, scorerVars, recommendations, rankerVars, embedVars, parserVars, gapVars, extractorVars, monitorVars, educationVars>>

\* the ids among job_ids of the jobs that have a Match row with the resume
Cached(resume_id, job_ids) ==
    {job_ids[i] : i \in {k \in 1..Len(job_ids) : MatchesOf(resume_id, job_ids[k]) # <<>>}}

StoredJob(rec) == [job_id |-> rec.job_id, score |-> rec.score, rank |-> rec.rank]

\* Recommendation(...); db.add; commit; refresh; return (recommendations.py:78-107)
StoreRecommendation(q, req, out, filters) ==
    /\ recommendations' =
           Append(recommendations,
                  [id |-> Len(recommendations) + 1,
                   user_id |-> req.user,
                   resume_id |-> req.resume_id,
                   job_recommendations |->
                       [i \in 1..Len(out.recommendations) |->
                           StoredJob(out.recommendations[i])],
                   filters_applied |-> filters])
    /\ Respond(q, [req EXCEPT !.called = out.scored # <<>>,
                              !.scored = out.scored,
                              !.cached = Cached(req.resume_id, out.scored)],
               201, out.recommendations)

\* POST /generate (recommendations.py:44-107).  Nothing this handler reads
\* is written by another handler while it waits, so it is one step.
generate_recommendations(q, user, resume_id, filters, limit, loadOk, raises) ==
    LET req == [requests[q] EXCEPT !.op = "generate", !.user = user,
                                   !.resume_id = resume_id]
        resume_rows == ResumeOf(resume_id, user)
        jobs == SelectSeq(JobsTable, LAMBDA j : j.is_active = 1)
    IN  /\ CanStart(q)
        /\ UNCHANGED <<EMBEDDINGS_AVAILABLE, scorerVars, matches, rankerVars, embedVars, parserVars, gapVars, extractorVars, monitorVars, educationVars>>
        /\ IF resume_rows = <<>> \/ jobs = <<>>
           THEN /\ Respond(q, req, 404, <<>>)
                /\ UNCHANGED <<_model, recommendations>>
           ELSE /\ _model' = EmbeddingService_init(loadOk)
                /\ StoreRecommendation(q, req,
                       generate(_model', resume_rows[1], jobs, filters, limit, raises),
                       filters)

\* MatchingService.generate_explanation(match) (matching_service.py:242-283);
\* the stored scores are in hundredths
generate_explanation(match) ==
    LET skill_overlap == match.skill_overlap
        skill_gaps == match.skill_gaps
        strengths ==
            (IF match.skill_score >= 7000
               THEN << Part("Strong skill alignment (n%)", <<>>, Round0(match.skill_score)) >>
               ELSE <<>>)
            \o (IF match.experience_score >= 8000
                  THEN << Part("Experience level exceeds requirements", <<>>, 0) >>
                  ELSE <<>>)
            \o (IF match.semantic_score >= 7000
                  THEN << Part("Resume content strongly aligns with job description", <<>>, 0) >>
                  ELSE <<>>)
            \o (IF skill_overlap # <<>>
                  THEN << Part("Key matching skills: ", Take(skill_overlap, 3), 0) >>
                  ELSE <<>>)
        gaps ==
            (IF match.skill_score < 7000
               THEN << Part("Skill match could be improved", <<>>, 0) >>
               ELSE <<>>)
            \o (IF skill_gaps # <<>>
                  THEN << Part("Missing required skills: ", Take(skill_gaps, 3), 0) >>
                  ELSE <<>>)
            \o (IF match.experience_score < 7000
                  THEN << Part("Experience level below requirements", <<>>, 0) >>
                  ELSE <<>>)
        recs ==
            (IF skill_gaps # <<>>
               THEN << Part("Consider learning: ", Take(skill_gaps, 3), 0) >>
               ELSE <<>>)
            \o (IF match.semantic_score < 6000
                  THEN << Part("Tailor resume language to match job description", <<>>, 0) >>
                  ELSE <<>>)
            \o (IF match.experience_score < 8000
                  THEN << Part("Highlight relevant project experience", <<>>, 0) >>
                  ELSE <<>>)
    IN  [overall_summary |-> match.explanation,
         strengths |-> IF strengths # <<>> THEN strengths
                       ELSE << Part("No major strengths identified", <<>>, 0) >>,
         gaps |-> IF gaps # <<>> THEN gaps
                  ELSE << Part("No significant gaps found", <<>>, 0) >>,
         recommendations |-> IF recs # <<>> THEN recs
                             ELSE << Part("Continue building relevant experience", <<>>, 0) >>,
         feature_contributions |-> match.feature_importance]

\* select(Match).where(Match.id == match_id); id is the primary key
MatchById(match_id) == SelectSeq(matches, LAMBDA m : m.id = match_id)

\* MatchDetailResponse(...) of a Match row (matches.py:142-158, 195-211)
MatchDetail(row) ==
    LET job_rows == SelectSeq(JobsTable, LAMBDA j : j.id = row.job_id)
    IN  [id |-> row.id, resume_id |-> row.resume_id, job_id |-> row.job_id,
         match |-> row.match,
         job_title |-> IF job_rows # <<>> THEN job_rows[1].title ELSE NoneVal,
         job_company |-> IF job_rows # <<>> THEN job_rows[1].company ELSE NoneVal]

\* .order_by(Match.overall_score.desc()): the order of rows of equal score
\* is the database's choice
OrderByScoreDesc(rows) ==
    IF rows = <<>> THEN <<>>
    ELSE CHOOSE out \in [1..Len(rows) -> Range(rows)] :
             /\ Range(out) = Range(rows)
             /\ \A i \in 1..(Len(rows) - 1) :
                    out[i].match.overall_score >= out[i + 1].match.overall_score

\* GET /resume/{resume_id} (matches.py:100-164)
get_resume_matches(q, user, resume_id) ==
    LET req == [requests[q] EXCEPT !.op = "list", !.user = user,
                                   !.resume_id = resume_id]
        rows == OrderByScoreDesc(SelectSeq(matches, LAMBDA m : m.resume_id = resume_id))
    IN  /\ CanStart(q)
        /\ IF ResumeOf(resume_id, user) = <<>>
           THEN Respond(q, req, 404, <<>>)
           ELSE Respond(q, req, 200, [i \in 1..Len(rows) |-> MatchDetail(rows[i])])
        /\ UNCHANGED <<EMBEDDINGS_AVAILABLE, _model, scorerVars, matches, recommendations, rankerVars, embedVars, parserVars, gapVars, extractorVars, monitorVars, educationVars>>

\* GET /{match_id} (matches.py:167-211)
get_match(q, user, match_id) ==
    LET req == [requests[q] EXCEPT !.op = "get", !.user = user,
                                   !.match_id = match_id]
        rows == MatchById(match_id)
    IN  /\ CanStart(q)
        /\ IF rows = <<>>
           THEN Respond(q, req, 404, <<>>)
           ELSE Respond(q, req, 200, << MatchDetail(rows[1]) >>)
        /\ UNCHANGED <<EMBEDDINGS_AVAILABLE, _model, scorerVars, matches, recommendations, rankerVars, embedVars, parserVars, gapVars, extractorVars, monitorVars, educationVars>>

\* GET /{match_id}/explain (matches.py:214-242)
explain_match(q, user, match_id, loadOk) ==
    LET req == [requests[q] EXCEPT !.op = "explain", !.user = user,
                                   !.match_id = match_id]
        rows == MatchById(match_id)
    IN  /\ CanStart(q)
        /\ IF rows = <<>>
           THEN /\ Respond(q, req, 404, <<>>)
                /\ UNCHANGED _model
           ELSE /\ _model' = EmbeddingService_init(loadOk)
                /\ Respond(q, req, 200, << generate_explanation(rows[1].match) >>)
        /\ UNCHANGED <<EMBEDDINGS_AVAILABLE, scorerVars, matches, recommendations, rankerVars, embedVars, parserVars, gapVars, extractorVars, monitorVars, educationVars>>

Next ==
    \/ \E q \in RequestIds, user \in Users, resume_id \in RequestedResumeIds,
          job_id \in RequestedJobIds, loadOk, raises \in BOOLEAN :
           calculate_match_request(q, user, resume_id, job_id, loadOk, raises)
    \/ \E q \in RequestIds : calculate_match_commit(q)
    \/ \E q \in RequestIds, user \in Users, resume_id \in RequestedResumeIds,
          filters \in FiltersPool, limit \in LimitPool, loadOk, raises \in BOOLEAN :
           generate_recommendations(q, user, resume_id, filters, limit, loadOk, raises)
    \/ \E q \in RequestIds, user \in Users, resume_id \in RequestedResumeIds :
           get_resume_matches(q, user, resume_id)
    \/ \E q \in RequestIds, user \in Users, match_id \in RequestedMatchIds :
           get_match(q, user, match_id)
    \/ \E q \in RequestIds, user \in Users, match_id \in RequestedMatchIds, loadOk \in BOOLEAN :
           explain_match(q, user, match_id, loadOk)

Spec == Init /\ [][Next]_vars

-----------------------------------------------------------------------------
(* Claims about the API                                                    *)

\* a POST /calculate request that has been answered and whose lookup found
\* at least one stored Match row for its (resume_id, job_id)
FoundExisting(q) ==
    /\ requests[q].op = "calculate"
    /\ requests[q].pc = "done"
    /\ requests[q].existing # <<>>

\* C9: whenever a Match record already exists for the requested
\* (resume_id, job_id), the match-calculation endpoint returns that stored
\* record unchanged, does not call calculate_match and creates no new
\* record, whatever calculate requests came before.
C9_ExistingMatchReturnedUnchanged ==
    \A q \in RequestIds :
        FoundExisting(q) =>
            /\ requests[q].status = 201
            /\ requests[q].body = <<requests[q].existing[1]>>
            /\ requests[q].body[1] \in Range(matches)
            /\ ~requests[q].called
            /\ ~requests[q].created

\* C10: RecommendationService.generate does not call calculate_match for a
\* (resume, job) pair for which a Match has already been created.
C10_RankerDoesNotRecompute ==
    \A q \in RequestIds :
        (requests[q].op = "generate" /\ requests[q].pc = "done") =>
            requests[q].cached = {}


-----------------------------------------------------------------------------
(* The ranker on its own: a RecommendationService is constructed and       *)
(* generate is called once on a resume, a list of jobs, filters and a      *)
(* limit.                                                                  *)

MaxJobs == 3

MaxLimit == 2

J_Full == <<"F","u","l","l">>

J_full == <<"f","u","l","l">>

R_Remote == <<"R","e","m","o","t","e">>

R_remote == <<"r","e","m","o","t","e">>

\* Job rows but for the id.  The third holds a tag that is no str, as a
\* scraped posting may (job_scraper.py:159): scoring it raises.
JobKinds ==
    { [title |-> T_Dev, company |-> C_Acme, description |-> T_code,
       requirements |-> NoneVal, skills_required |-> <<S_python, S_sql, S_docker>>,
       experience_required |-> <<5>>, education_required |-> E_Master_or_Bachelor,
       location |-> L_NYC, job_type |-> J_Full, remote_option |-> R_Remote,
       salary_min |-> <<50>>, salary_max |-> <<90>>, is_active |-> 1],
      [title |-> T_DBA, company |-> C_Acme, description |-> T_data,
       requirements |-> S_sql, skills_required |-> <<S_SQL>>,
       experience_required |-> <<>>, education_required |-> NoneVal,
       location |-> NoneVal, job_type |-> NoneVal, remote_option |-> NoneVal,
       salary_min |-> <<>>, salary_max |-> <<>>, is_active |-> 1],
      [title |-> T_Dev, company |-> C_Acme, description |-> T_data,
       requirements |-> NoneVal, skills_required |-> <<S_python, NoneVal>>,
       experience_required |-> <<0>>, education_required |-> NoneVal,
       location |-> L_ny, job_type |-> J_full, remote_option |-> R_remote,
       salary_min |-> <<70>>, salary_max |-> <<80>>, is_active |-> 1] }

\* the rows of a jobs list, numbered in list order
JobsOfKinds(kinds) == [i \in 1..Len(kinds) |-> [id |-> i] @@ kinds[i]]

JobLists == UNION { [1..k -> JobKinds] : k \in 0..MaxJobs }

RankerFiltersPool ==
    { NoFilters,
      [location |-> L_ny, job_type |-> NoneVal, remote_option |-> NoneVal,
       min_salary |-> <<>>, max_salary |-> <<>>],
      [location |-> NoneVal, job_type |-> J_full, remote_option |-> R_remote,
       min_salary |-> <<>>, max_salary |-> <<>>],
      [location |-> NoneVal, job_type |-> NoneVal, remote_option |-> NoneVal,
       min_salary |-> <<40>>, max_salary |-> <<85>>],
      [location |-> <<>>, job_type |-> NoneVal, remote_option |-> NoneVal,
       min_salary |-> <<0>>, max_salary |-> <<0>>] }

\* RecommendationRequest.limit is a plain int (schemas/recommendation.py:32)
RankerLimitPool == {-1} \cup (0..MaxLimit) \cup {DefaultLimit}

InitRanker ==
    /\ InitProcess
    /\ ScorerIdle
    /\ EducationIdle
    /\ MonitorIdle
    /\ ExtractorIdle
    /\ GapIdle
    /\ ApiIdle
    /\ RankerIdle
    /\ EmbedIdle
    /\ ParserIdle

\* RecommendationService.__init__: EmbeddingService() and MatchingService()
RecommendationService_init(loadOk) ==
    /\ _model' = EmbeddingService_init(loadOk)
    /\ rec_svc' = TRUE
    /\ UNCHANGED <<EMBEDDINGS_AVAILABLE, scorerVars, apiVars, ranked, embedVars, parserVars, gapVars, extractorVars, monitorVars, educationVars>>

\* a call of generate: its arguments, the model it saw, whether encode
\* raised during it, the jobs it passed to the scorer and what it returned
GenerateCall(resume_, jobs, filters, limit, raises, returned) ==
    [resume |-> resume_,
     jobs |-> jobs,
     filters |-> filters,
     limit |-> limit,
     self_model |-> _model,
     raises |-> raises,
     scored |-> returned.scored,
     out |-> returned.recommendations]

\* await recommendation_service.generate(resume, jobs, filters, limit)
Generate(resume_, kinds, filters, limit, raises) ==
    /\ ranked' = <<GenerateCall(resume_, JobsOfKinds(kinds), filters, limit, raises,
                                generate(_model, resume_, JobsOfKinds(kinds),
                                         filters, limit, raises))>>
    /\ UNCHANGED <<EMBEDDINGS_AVAILABLE, _model, scorerVars, apiVars, rec_svc, embedVars, parserVars, gapVars, extractorVars, monitorVars, educationVars>>

\* encode can raise only where it is called: with a model loaded
EncodeOutcomes ==
    IF EMBEDDINGS_AVAILABLE /\ _model = "Loaded" THEN BOOLEAN ELSE {FALSE}

NextRanker ==
    \/ /\ ranked = <<>>
       /\ \E loadOk \in BOOLEAN : RecommendationService_init(loadOk)
    \/ /\ rec_svc /\ ranked = <<>>
       /\ \E kinds \in JobLists, filters \in RankerFiltersPool,
             limit \in RankerLimitPool, raises \in EncodeOutcomes :
              Generate(ResumesTable[1], kinds, filters, limit, raises)

SpecRanker == InitRanker /\ [][NextRanker]_vars


-----------------------------------------------------------------------------
(* Claims about the ranker                                                 *)

\* the generate call made
Call == ranked[1]

\* the filtered jobs, and those of them scored without error with their
\* scores, of the call made
FilteredOfCall ==
    IF Call.jobs = <<>> THEN <<>> ELSE _apply_filters(Call.jobs, Call.filters)

ScoredOfCall == ScoreJobs(Call.self_model, Call.resume, FilteredOfCall, Call.raises)

ReturnedIds == {Call.out[i].job_id : i \in 1..Len(Call.out)}

\* C11: for limit >= 0 generate returns exactly min(limit, number of
\* filtered jobs scored without error) items, each a different scored job
\* with its score, ranked 1, 2, ..., n in list order, scores non-increasing,
\* and no omitted scored job scores higher than the last item returned.
C11_TopLimitRanked ==
    (ranked # <<>> /\ Call.limit >= 0) =>
        LET out == Call.out
            scored == ScoredOfCall
            n == Len(out)
        IN  /\ n = Min(Call.limit, Len(scored))
            /\ \A i \in 1..n : out[i].rank = i
            /\ \A i \in 1..n :
                   \E k \in 1..Len(scored) :
                       scored[k].job.id = out[i].job_id /\ scored[k].score = out[i].score
            /\ Cardinality(ReturnedIds) = n
            /\ \A i \in 1..(n - 1) : out[i].score >= out[i + 1].score
            /\ \A k \in 1..Len(scored) :
                   (n > 0 /\ scored[k].job.id \notin ReturnedIds) =>
                       scored[k].score <= out[n].score

\* three scored candidates of unequal scores, limit 2, two items returned
C11_Witness ==
    /\ ranked # <<>>
    /\ Call.limit = 2
    /\ Len(ScoredOfCall) = 3
    /\ Len(Call.out) = 2
    /\ \E k \in 1..3 : ScoredOfCall[k].score < Call.out[2].score


\* C12: ranking is stable: of two scored jobs of equal overall_score the
\* one earlier in the input list gets the smaller rank, and where the limit
\* cuts through a group of tied jobs the earlier ones are the ones kept.
C12_StableRanking ==
    ranked # <<>> =>
        LET out == Call.out
            scored == ScoredOfCall
        IN  /\ \A i, j \in 1..Len(out) :
                   (i < j /\ out[i].score = out[j].score) =>
                       out[i].job_id < out[j].job_id
            /\ \A i \in 1..Len(out) : \A k \in 1..Len(scored) :
                   (scored[k].job.id \notin ReturnedIds
                      /\ scored[k].score = out[i].score) =>
                       out[i].job_id < scored[k].job.id

\* two tied jobs returned and a third of the same score cut off by the limit
C12_Witness ==
    /\ ranked # <<>>
    /\ Len(Call.out) = 2
    /\ Call.out[1].score = Call.out[2].score
    /\ \E k \in 1..Len(ScoredOfCall) :
           /\ ScoredOfCall[k].job.id \notin ReturnedIds
           /\ ScoredOfCall[k].score = Call.out[2].score


ScoredIds == {Call.scored[i] : i \in 1..Len(Call.scored)}

\* a text filter applies when it is a non-empty text
TextApplies(v) == v # NoneVal /\ v # <<>>

\* a salary filter applies when it is a number other than 0
NumberApplies(v) == v # <<>> /\ v[1] # 0

\* the job holds a text in the column
HasText(v) == v # NoneVal

\* the filters as stated: substring and equality of the texts as written,
\* salary bounds on the job's own figures; an empty or zero value is no filter
PassesAsWritten(j, f) ==
    /\ TextApplies(f.location) =>
          (HasText(j.location) /\ Contains(j.location, f.location))
    /\ TextApplies(f.job_type) => j.job_type = f.job_type
    /\ TextApplies(f.remote_option) => j.remote_option = f.remote_option
    /\ NumberApplies(f.min_salary) =>
          (j.salary_min # <<>> /\ j.salary_min[1] >= f.min_salary[1])
    /\ NumberApplies(f.max_salary) =>
          (j.salary_max # <<>> /\ j.salary_max[1] <= f.max_salary[1])

\* C13: the jobs generate passes to the Match Scorer are exactly the input
\* jobs that satisfy every supplied filter - location a substring of
\* job.location, job_type and remote_option equal to the job's, salary_min
\* >= min_salary, salary_max <= max_salary - and none other is returned.
C13_ScoredAreFilterMatchesAsWritten ==
    ranked # <<>> =>
        /\ ScoredIds =
              {Call.jobs[i].id : i \in
                  {k \in 1..Len(Call.jobs) :
                      Call.filters = NoFilters \/ PassesAsWritten(Call.jobs[k], Call.filters)}}
        /\ ReturnedIds \subseteq ScoredIds

\* the filters with texts compared after lower-casing both sides; a job
\* without salary_min counts as 0, one without salary_max (or with 0) fails
\* any max_salary
PassesFolded(j, f) ==
    /\ TextApplies(f.location) =>
          (HasText(j.location) /\ Contains(Lower(j.location), Lower(f.location)))
    /\ TextApplies(f.job_type) =>
          (HasText(j.job_type) /\ Lower(j.job_type) = Lower(f.job_type))
    /\ TextApplies(f.remote_option) =>
          (HasText(j.remote_option) /\ Lower(j.remote_option) = Lower(f.remote_option))
    /\ NumberApplies(f.min_salary) =>
          (IF j.salary_min = <<>> THEN 0 ELSE j.salary_min[1]) >= f.min_salary[1]
    /\ NumberApplies(f.max_salary) =>
          (j.salary_max # <<>> /\ j.salary_max[1] # 0
             /\ j.salary_max[1] <= f.max_salary[1])

\* C13 as amended: the same with the comparisons of texts case-insensitive.
C13_ScoredAreFilterMatchesFolded ==
    ranked # <<>> =>
        /\ ScoredIds =
              {Call.jobs[i].id : i \in
                  {k \in 1..Len(Call.jobs) :
                      Call.filters = NoFilters \/ PassesFolded(Call.jobs[k], Call.filters)}}
        /\ ReturnedIds \subseteq ScoredIds

\* a call with a filter that keeps some of the jobs and drops others
C13_Witness ==
    /\ ranked # <<>>
    /\ Call.filters # NoFilters
    /\ ScoredIds # {}
    /\ \E i \in 1..Len(Call.jobs) : Call.jobs[i].id \notin ScoredIds
    /\ Call.out # <<>>


\* scoring the job raises an error
ScoringRaises(j) ==
    calculate_match(Call.self_model, Call.resume, j, Call.raises, Call.raises).status = "raise"

\* the jobs of the call whose scoring does not raise, in their order
JobsScoringWell == SelectSeq(Call.jobs, LAMBDA j : ~ScoringRaises(j))

\* C14: whichever of the filtered jobs raise when scored, generate returns,
\* and what it returns is the ranking (sorted, ranked, cut to the limit) of
\* the other filtered jobs alone: a failing job is skipped and changes
\* nothing about the rest.
C14_FailingJobsSkipped ==
    ranked # <<>> =>
        /\ Call.out =
              generate(Call.self_model, Call.resume, JobsScoringWell,
                       Call.filters, Call.limit, Call.raises).recommendations
        /\ \A i \in 1..Len(Call.jobs) :
               ScoringRaises(Call.jobs[i]) => Call.jobs[i].id \notin ReturnedIds

\* the first filtered job raises, a later one is returned
C14_Witness ==
    /\ ranked # <<>>
    /\ Call.scored # <<>>
    /\ \E i \in 1..Len(Call.jobs) :
           /\ Call.jobs[i].id = Call.scored[1]
           /\ ScoringRaises(Call.jobs[i])
    /\ Call.out # <<>>


-----------------------------------------------------------------------------
(* Further claims about the scorer, checked under SpecScorer               *)

\* the job's title, description and requirements are all empty
JobTextEmpty(j) ==
    Falsy(j.title) /\ Falsy(j.description) /\ Falsy(j.requirements)

\* C15: calculate_match returns a result to its caller, and semantic_score
\* is the neutral 50.0 whenever the resume's raw_text is empty or the
\* job's source text (title, description and requirements) is empty.
C15_NeutralSemanticScore ==
    result # <<>> =>
        /\ result[1].status = "ok"
        /\ (Falsy(resume[1].raw_text) \/ JobTextEmpty(job[1])) =>
               result[1].semantic_score = 5000


-----------------------------------------------------------------------------
(* The Embedding Provider on its own: EmbeddingService() is constructed    *)
(* any number of times, by whichever service or handler, and embed_text is *)
(* called on texts.  A construction holds no await, so on the event loop   *)
(* it is one step.                                                         *)

MaxConstructions == 3

EmbedTexts == {T_py_dev, T_code, <<" ", " ">>}

InitEmbedding ==
    /\ InitProcess
    /\ ScorerIdle
    /\ EducationIdle
    /\ MonitorIdle
    /\ ExtractorIdle
    /\ GapIdle
    /\ ApiIdle
    /\ RankerIdle
    /\ constructed = 0
    /\ loads = 0
    /\ vectors = [t \in EmbedTexts |-> {}]
    /\ ParserIdle

\* EmbeddingService(): __new__ and __init__
EmbeddingService_new(loadOk) ==
    /\ constructed < MaxConstructions
    /\ constructed' = constructed + 1
    /\ _model' = EmbeddingService_init(loadOk)
    /\ loads' = IF ShouldLoad /\ loadOk THEN loads + 1 ELSE loads
    /\ UNCHANGED <<EMBEDDINGS_AVAILABLE, scorerVars, apiVars, rankerVars, vectors, parserVars, gapVars, extractorVars, monitorVars, educationVars>>

\* await embedding_service.embed_text(text), on an instance constructed before
EmbedText(text, encodeRaises) ==
    /\ constructed > 0
    /\ vectors' = [vectors EXCEPT ![text] = @ \cup {embed_text(_model, text, encodeRaises)}]
    /\ UNCHANGED <<EMBEDDINGS_AVAILABLE, _model, scorerVars, apiVars, rankerVars, constructed, loads, parserVars, gapVars, extractorVars, monitorVars, educationVars>>

NextEmbedding ==
    \/ \E loadOk \in BOOLEAN : EmbeddingService_new(loadOk)
    \/ \E text \in EmbedTexts, encodeRaises \in EncodeOutcomes :
           EmbedText(text, encodeRaises)

SpecEmbedding == InitEmbedding /\ [][NextEmbedding]_vars

\* C16: whatever the order of EmbeddingService constructions and embed
\* calls, the model is loaded at most once, and once loaded it is the
\* model held from then on.
C16_ModelLoadedAtMostOnce ==
    /\ loads <= 1
    /\ loads = 1 => _model = "Loaded"
    /\ _model = "Loaded" => loads = 1

\* the model loaded by a construction, another construction after it, and
\* a text embedded before and after the load
C16_Witness ==
    /\ constructed = MaxConstructions
    /\ loads = 1
    /\ _model = "Loaded"
    /\ \E t \in EmbedTexts : Cardinality(vectors[t]) = 2

\* C17: two calls embed_text(t) return the same vector, whatever calls
\* came between, with or without a model backend, and also when encode
\* fails on some calls and the fallback is used.
C17_EmbedDeterministic ==
    \A t \in EmbedTexts : Cardinality(vectors[t]) <= 1


-----------------------------------------------------------------------------
(* Resume Parser: backend/services/resume_parser.py                        *)

Whitespace == {" ", "\n", "\t"}

Digits == <<"0", "1", "2", "3", "4", "5", "6", "7", "8", "9">>

DigitSet == {Digits[i] : i \in 1..Len(Digits)}

\* int() of one digit
DigitValue(c) == (CHOOSE i \in 1..Len(Digits) : Digits[i] = c) - 1

Letters ==
    {Lowercase[i] : i \in 1..Len(Lowercase)} \cup {Uppercase[i] : i \in 1..Len(Uppercase)}

RECURSIVE LStrip(_)
LStrip(s) ==
    IF s # <<>> /\ Head(s) \in Whitespace THEN LStrip(Tail(s)) ELSE s

RECURSIVE RStrip(_)
RStrip(s) ==
    IF s # <<>> /\ s[Len(s)] \in Whitespace
    THEN RStrip(SubSeq(s, 1, Len(s) - 1))
    ELSE s

\* str.strip()
Strip(s) == RStrip(LStrip(s))

\* text[a:b] for 0 <= a and 0 <= b <= len(text); empty when b <= a
Slice(text, a, b) == SubSeq(text, a + 1, b)

\* the positions of text that are not whitespace after whitespace
RunHeads(text) ==
    SelectSeq([i \in 1..Len(text) |-> i],
              LAMBDA i : ~(i > 1 /\ text[i] \in Whitespace /\ text[i - 1] \in Whitespace))

\* the characters at these positions, a blank for a whitespace character
BlankedAt(text, heads) ==
    [j \in 1..Len(heads) |->
        IF text[heads[j]] \in Whitespace THEN " " ELSE text[heads[j]]]

\* re.sub(r'\s+', ' ', text): every run of whitespace becomes one blank
CollapseWhitespace(text) == BlankedAt(text, RunHeads(text))

\* the characters of [\w\s.,;:!?@#$%&*()\-+=\[\]{}\'\"\/]
KeptChars ==
    Letters \cup DigitSet \cup Whitespace \cup
    {"_", ".", ",", ";", ":", "!", "?", "@", "#", "$", "%", "&", "*", "(", ")",
     "-", "+", "=", "[", "]", "{", "}", "'", "\"", "/"}

KeepChar(c) == c \in KeptChars

\* re.sub(r'[^\w\s.,;:!?@#$%&*()\-+=\[\]{}\'\"\/]', '', text)
DropSpecial(text) == SelectSeq(text, KeepChar)

_clean_text(text) == Strip(DropSpecial(CollapseWhitespace(text)))

\* SECTION_PATTERNS in dict order; each pattern is (?i) over alternatives
\* tried left to right, an alternative being one word or two words with
\* \s* between them
SECTION_PATTERNS ==
    <<
       [name |-> "experience",
        alts |-> << <<<<"w", "o", "r", "k">>, <<"e", "x", "p", "e", "r", "i", "e", "n", "c", "e">>>>,
                   <<<<"p", "r", "o", "f", "e", "s", "s", "i", "o", "n", "a", "l">>, <<"e", "x", "p", "e", "r", "i", "e", "n", "c", "e">>>>,
                   <<<<"e", "m", "p", "l", "o", "y", "m", "e", "n", "t">>, <<"h", "i", "s", "t", "o", "r", "y">>>>,
                   <<<<"e", "x", "p", "e", "r", "i", "e", "n", "c", "e">>>> >>],
       [name |-> "education",
        alts |-> << <<<<"e", "d", "u", "c", "a", "t", "i", "o", "n">>>>,
                   <<<<"a", "c", "a", "d", "e", "m", "i", "c">>, <<"b", "a", "c", "k", "g", "r", "o", "u", "n", "d">>>>,
                   <<<<"q", "u", "a", "l", "i", "f", "i", "c", "a", "t", "i", "o", "n", "s">>>> >>],
       [name |-> "skills",
        alts |-> << <<<<"s", "k", "i", "l", "l", "s">>>>,
                   <<<<"t", "e", "c", "h", "n", "i", "c", "a", "l">>, <<"s", "k", "i", "l", "l", "s">>>>,
                   <<<<"c", "o", "m", "p", "e", "t", "e", "n", "c", "i", "e", "s">>>>,
                   <<<<"e", "x", "p", "e", "r", "t", "i", "s", "e">>>> >>],
       [name |-> "summary",
        alts |-> << <<<<"s", "u", "m", "m", "a", "r", "y">>>>,
                   <<<<"p", "r", "o", "f", "i", "l", "e">>>>,
                   <<<<"o", "b", "j", "e", "c", "t", "i", "v", "e">>>>,
                   <<<<"a", "b", "o", "u", "t">>, <<"m", "e">>>> >>],
       [name |-> "projects",
        alts |-> << <<<<"p", "r", "o", "j", "e", "c", "t", "s">>>>,
                   <<<<"p", "e", "r", "s", "o", "n", "a", "l">>, <<"p", "r", "o", "j", "e", "c", "t", "s">>>>,
                   <<<<"p", "o", "r", "t", "f", "o", "l", "i", "o">>>> >>],
       [name |-> "certifications",
        alts |-> << <<<<"c", "e", "r", "t", "i", "f", "i", "c", "a", "t", "i", "o", "n", "s">>>>,
                   <<<<"c", "e", "r", "t", "i", "f", "i", "c", "a", "t", "e", "s">>>>,
                   <<<<"l", "i", "c", "e", "n", "s", "e", "s">>>> >>]
    >>

\* the word, in any case, at text[pos:]
MatchWordAt(text, pos, word) ==
    /\ pos + Len(word) <= Len(text)
    /\ \A k \in 1..Len(word) : LowerChar(text[pos + k]) = word[k]

\* \s* from pos: the position after the whitespace
RECURSIVE SkipWhitespace(_, _)
SkipWhitespace(text, pos) ==
    IF pos < Len(text) /\ text[pos + 1] \in Whitespace
    THEN SkipWhitespace(text, pos + 1)
    ELSE pos

\* the end of the match of one alternative at pos, -1 without a match
MatchAlternativeAt(text, pos, alt) ==
    IF ~MatchWordAt(text, pos, alt[1]) THEN -1
    ELSE IF Len(alt) = 1 THEN pos + Len(alt[1])
    ELSE IF MatchWordAt(text, SkipWhitespace(text, pos + Len(alt[1])), alt[2])
         THEN SkipWhitespace(text, pos + Len(alt[1])) + Len(alt[2])
         ELSE -1

\* the end of the pattern's match at pos: the first alternative that matches
RECURSIVE MatchAt(_, _, _)
MatchAt(text, pos, alts) ==
    IF alts = <<>> THEN -1
    ELSE IF MatchAlternativeAt(text, pos, Head(alts)) # -1
         THEN MatchAlternativeAt(text, pos, Head(alts))
         ELSE MatchAt(text, pos, Tail(alts))

\* the positions from pos on where the pattern matches
MatchStarts(alts, text, pos) ==
    {p \in pos..(Len(text) - 1) : MatchAt(text, p, alts) # -1}

Leftmost(starts) == CHOOSE p \in starts : \A q \in starts : p <= q

RECURSIVE finditer(_, _, _)

\* the match at p and the matches after its end
MatchesFrom(alts, text, p) ==
    <<[start |-> p, end |-> MatchAt(text, p, alts)]>>
    \o finditer(alts, text, MatchAt(text, p, alts))

\* re.finditer(pattern, text) from pos: leftmost, non-overlapping matches
finditer(alts, text, pos) ==
    IF MatchStarts(alts, text, pos) = {} THEN <<>>
    ELSE MatchesFrom(alts, text, Leftmost(MatchStarts(alts, text, pos)))

\* (match.start(), match.end(), section_name) of one pattern's matches
NamedMatches(found, section_name) ==
    [i \in 1..Len(found) |->
        [start |-> found[i].start, end |-> found[i].end, section_name |-> section_name]]

\* all_matches before the sort: pattern by pattern, from pattern p on
RECURSIVE CollectMatches(_, _)
CollectMatches(text, p) ==
    IF p > Len(SECTION_PATTERNS) THEN <<>>
    ELSE NamedMatches(finditer(SECTION_PATTERNS[p].alts, text, 0), SECTION_PATTERNS[p].name)
         \o CollectMatches(text, p + 1)

\* x put into a list sorted by start, after the elements that start no later
RECURSIVE InsertByStart(_, _)
InsertByStart(sorted, x) ==
    IF sorted = <<>> THEN <<x>>
    ELSE IF Head(sorted).start <= x.start
         THEN <<Head(sorted)>> \o InsertByStart(Tail(sorted), x)
         ELSE <<x>> \o sorted

\* all_matches.sort(key=lambda x: x[0]): stable
RECURSIVE SortByStart(_)
SortByStart(ms) ==
    IF ms = <<>> THEN <<>>
    ELSE InsertByStart(SortByStart(SubSeq(ms, 1, Len(ms) - 1)), ms[Len(ms)])

\* variant: a key already stored keeps its value
Put_keepfirst(d, k, v) ==
    [x \in DOMAIN d \cup {k} |-> IF x \in DOMAIN d THEN d[x] ELSE v]

\* sections[k] = v
Put(d, k, v) ==
    [x \in DOMAIN d \cup {k} |-> IF x = k THEN v ELSE d[x]]

\* text[end:next_start].strip(), text[end:].strip() for the last match
SectionContent(text, all_matches, i) ==
    Strip(Slice(text, all_matches[i].end,
                IF i < Len(all_matches) THEN all_matches[i + 1].start ELSE Len(text)))

\* the loop over enumerate(all_matches), from index i with sections so far
RECURSIVE StoreSections(_, _, _, _)
StoreSections(text, all_matches, i, sections) ==
    IF i > Len(all_matches) THEN sections
    ELSE StoreSections(text, all_matches, i + 1,
             Put(sections, all_matches[i].section_name, SectionContent(text, all_matches, i)))

\* all_matches after the sort
all_matches_of(text) == SortByStart(CollectMatches(text, 1))

_parse_sections(text) == StoreSections(text, all_matches_of(text), 1, <<>>)

\* `len(text.strip()) < 100`
MinPdfText == 100

\* What the libraries do with the bytes of a file: for each extraction
\* strategy, the text it has produced and whether it raises.  PyPDF2 adds
\* page after page to text, so pages read before a page raises stay in it.
Strategy(text, raises) == [text |-> text, raises |-> raises]

\* _extract_pdf_text: text after the PyPDF2 step
PyPDF2Text(content) == IF PyPDF2 THEN content.pypdf2.text ELSE <<>>

\* pdfminer is tried when the text so far is short
PdfminerTried(content) ==
    Len(Strip(PyPDF2Text(content))) < MinPdfText /\ PyPDF2

_extract_pdf_text(content) ==
    IF PdfminerTried(content) /\ ~content.pdfminer.raises
    THEN _clean_text(content.pdfminer.text)
    ELSE _clean_text(PyPDF2Text(content))

\* the strategies _extract_pdf_text calls, in order
PdfAttempted(content) ==
    (IF PyPDF2 THEN <<"PyPDF2">> ELSE <<>>)
    \o (IF PdfminerTried(content) THEN <<"pdfminer">> ELSE <<>>)

\* what a parse call comes to: the dict returned, or the exception raised
Returned(raw_text, attempted) ==
    [outcome |-> "returned", attempted |-> attempted,
     raw_text |-> raw_text, sections |-> _parse_sections(raw_text)]

Raised(exception, attempted) ==
    [outcome |-> exception, attempted |-> attempted,
     raw_text |-> <<>>, sections |-> <<>>]

\* _extract_docx_text followed by the rest of parse
parse_docx(content) ==
    IF ~Document THEN Raised("ImportError", <<>>)
    ELSE IF content.docx.raises THEN Raised("Exception", <<"docx">>)
    ELSE Returned(_clean_text(content.docx.text), <<"docx">>)

\* parse; education, work_history and experience_years are computed from
\* raw_text and sections by calls that raise nothing
parse(file_content, file_ext) ==
    IF Lower(file_ext) = <<".", "p", "d", "f">>
    THEN Returned(_extract_pdf_text(file_content), PdfAttempted(file_content))
    ELSE IF Lower(file_ext) \in {<<".", "d", "o", "c", "x">>, <<".", "d", "o", "c">>}
         THEN parse_docx(file_content)
         ELSE Raised("ValueError", <<>>)

\* a date, or <<>> for None
Date(year, month) == <<[year |-> year, month |-> month]>>

\* int(year_match.group(1)) for the four digits at text[pos:]
YearAt(text, pos) ==
    1000 * DigitValue(text[pos + 1]) + 100 * DigitValue(text[pos + 2])
    + 10 * DigitValue(text[pos + 3]) + DigitValue(text[pos + 4])

\* the positions where r'(\d{4})' matches
YearPositions(date_str) ==
    {i \in 0..(Len(date_str) - 4) : \A k \in 1..4 : date_str[i + k] \in DigitSet}

\* re.search: the leftmost match
FirstYear(date_str) ==
    YearAt(date_str, CHOOSE i \in YearPositions(date_str) :
                         \A k \in YearPositions(date_str) : i <= k)

\* _parse_date; datetime(year, 6, 1) raises for a year below 1
_parse_date(date_str) ==
    IF Falsy(date_str) THEN <<>>
    ELSE IF YearPositions(date_str) = {} THEN <<>>
    ELSE IF FirstYear(date_str) < 1 THEN <<>>
    ELSE Date(FirstYear(date_str), 6)

PresentWords == {<<"p", "r", "e", "s", "e", "n", "t">>, <<"c", "u", "r", "r", "e", "n", "t">>}

\* the end of an entry: now for Present/Current
EndOf(end_str, now) ==
    IF Lower(end_str) \in PresentWords THEN now ELSE _parse_date(end_str)

\* max(0, months)
Clamp(months) == Max(0, months)

MonthsBetween(start, end) ==
    (end[1].year - start[1].year) * 12 + (end[1].month - start[1].month)

\* what one entry adds to total_months; an end_date of None makes
\* end_str.lower() raise, and the entry is skipped
EntryMonths(entry, now) ==
    IF entry.end_date = NoneVal THEN 0
    ELSE IF _parse_date(entry.start_date) # <<>> /\ EndOf(entry.end_date, now) # <<>>
         THEN Clamp(MonthsBetween(_parse_date(entry.start_date), EndOf(entry.end_date, now)))
         ELSE 0

RECURSIVE TotalMonths(_, _)
TotalMonths(work_history, now) ==
    IF work_history = <<>> THEN 0
    ELSE EntryMonths(Head(work_history), now) + TotalMonths(Tail(work_history), now)

\* now: datetime.datetime.now() as the call reads it
_calculate_experience_years(work_history, now) ==
    IF work_history = <<>> THEN 0
    ELSE TotalMonths(work_history, now) \div 12


-----------------------------------------------------------------------------
(* The Resume Parser on its own: one call of parse, of _parse_sections or  *)
(* of _calculate_experience_years, on inputs drawn from the pools below.   *)

MaxPieces == 3
MaxEntries == 2

RECURSIVE Concat(_)
Concat(pieces) ==
    IF pieces = <<>> THEN <<>> ELSE Head(pieces) \o Concat(Tail(pieces))

\* the text repeated n times
RECURSIVE Repeat(_, _)
Repeat(text, n) == IF n = 0 THEN <<>> ELSE text \o Repeat(text, n - 1)

\* texts a strategy extracts: pages with a bullet, doubled blanks and line
\* ends; one page read before PyPDF2 raises; a text of 110 characters
T_pypdf2 == <<"E", "d", "u", "c", "a", "t", "i", "o", "n", " ", " ", "M", "I", "T", " ", "|", " ", "2", "0", "2", "0", "\n", "S", "k", "i", "l", "l", "s", " ", "p", "y">>
T_page1 == <<"S", "u", "m", "m", "a", "r", "y", " ", "d", "e", "v", "\n">>
T_long == Repeat(<<"S", "k", "i", "l", "l", "s", " ", "S", "Q", "L", " ">>, 10)
T_pdfminer == <<" ", "P", "r", "o", "f", "i", "l", "e", " ", "d", "e", "v", " ", "E", "d", "u", "c", "a", "t", "i", "o", "n", " ", "M", "I", "T">>
T_docx == <<"E", "x", "p", "e", "r", "i", "e", "n", "c", "e", "\t", "A", "c", "m", "e", "\n", "E", "d", "u", "c", "a", "t", "i", "o", "n", " ", "M", "I", "T", " ">>

FileContents ==
    [pypdf2 : {Strategy(<<>>, TRUE), Strategy(T_page1, TRUE), Strategy(<<>>, FALSE),
               Strategy(T_pypdf2, FALSE), Strategy(T_long, FALSE)},
     pdfminer : {Strategy(<<>>, TRUE), Strategy(T_pdfminer, FALSE)},
     docx : {Strategy(<<>>, TRUE), Strategy(T_docx, FALSE)}]

FileExts == {<<".", "p", "d", "f">>, <<".", "P", "D", "F">>, <<".", "d", "o", "c", "x">>, <<".", "d", "o", "c">>, <<".", "t", "x", "t">>, <<>>}

SectionPieces ==
    << <<"E", "d", "u", "c", "a", "t", "i", "o", "n">>,
       <<" ", "M", "I", "T", " ">>,
       <<"S", "k", "i", "l", "l", "s">>,
       <<"e", "d", "u", "c", "a", "t", "i", "o", "n", ":">>,
       <<"W", "o", "r", "k", " ", " ", "E", "x", "p", "e", "r", "i", "e", "n", "c", "e">>,
       <<"\n", "p", "y", " ", "2", "0", "2", "0", " ">> >>

SectionTexts ==
    {Concat([i \in DOMAIN ps |-> SectionPieces[ps[i]]]) :
        ps \in UNION {[1..k -> 1..Len(SectionPieces)] : k \in 0..MaxPieces}}

StartStrings == {<<"D", "e", "c", " ", "2", "0", "1", "9">>, <<"2", "0", "2", "0">>, <<"0", "0", "0", "0">>, <<>>}

EndStrings == {<<"J", "a", "n", " ", "2", "0", "2", "1">>, <<"2", "0", "1", "9">>, <<"P", "r", "e", "s", "e", "n", "t">>, NoneVal}

Entries == [start_date : StartStrings, end_date : EndStrings]

WorkHistories == UNION {[1..k -> Entries] : k \in 0..MaxEntries}

Nows == {Date(2026, 11), Date(2021, 2)}

NoParserCall ==
    /\ parse_call = <<>>
    /\ sections_call = <<>>
    /\ years_call = <<>>

\* the parser imports nothing of the embedding module
InitParser ==
    /\ EMBEDDINGS_AVAILABLE = FALSE
    /\ _model = "None"
    /\ ScorerIdle
    /\ EducationIdle
    /\ MonitorIdle
    /\ ExtractorIdle
    /\ GapIdle
    /\ ApiIdle
    /\ RankerIdle
    /\ EmbedIdle
    /\ PyPDF2 \in BOOLEAN
    /\ Document \in BOOLEAN
    /\ NoParserCall

ParserOthers == <<EMBEDDINGS_AVAILABLE, _model, scorerVars, apiVars, rankerVars, embedVars, PyPDF2, Document>>

\* await parser.parse(file_content, file_ext)
Parse(file_content, file_ext) ==
    /\ parse_call' = <<[file_content |-> file_content, file_ext |-> file_ext,
                        out |-> parse(file_content, file_ext)]>>
    /\ UNCHANGED <<ParserOthers, sections_call, years_call, gapVars, extractorVars, monitorVars, educationVars>>

\* parser._parse_sections(text)
ParseSections(text) ==
    /\ sections_call' = <<[text |-> text, all_matches |-> all_matches_of(text),
                           out |-> _parse_sections(text)]>>
    /\ UNCHANGED <<ParserOthers, parse_call, years_call, gapVars, extractorVars, monitorVars, educationVars>>

\* parser._calculate_experience_years(work_history), at the time now
CalculateExperienceYears(work_history, now) ==
    /\ years_call' = <<[work_history |-> work_history, now |-> now,
                        out |-> _calculate_experience_years(work_history, now)]>>
    /\ UNCHANGED <<ParserOthers, parse_call, sections_call, gapVars, extractorVars, monitorVars, educationVars>>

NextParser ==
    \/ (NoParserCall /\ \E file_content \in FileContents, file_ext \in FileExts :
            Parse(file_content, file_ext))
    \/ (NoParserCall /\ \E text \in SectionTexts : ParseSections(text))
    \/ (NoParserCall /\ \E work_history \in WorkHistories, now \in Nows :
            CalculateExperienceYears(work_history, now))

SpecParser == InitParser /\ [][NextParser]_vars

Supported(file_ext) ==
    Lower(file_ext) \in {<<".", "p", "d", "f">>, <<".", "d", "o", "c", "x">>, <<".", "d", "o", "c">>}

\* every extraction strategy for the format of file_ext raises on the file
EveryStrategyRaises(file_content, file_ext) ==
    IF Lower(file_ext) = <<".", "p", "d", "f">>
    THEN file_content.pypdf2.raises /\ file_content.pdfminer.raises
    ELSE file_content.docx.raises

\* C18: parse returns a result only for a supported extension with a
\* text-extraction strategy of that format that did not raise; an unknown
\* extension fails as unsupported with no extraction attempted; a supported
\* format whose strategies all raise fails instead of returning a result.
C18_ResultOnlyWhenExtracted ==
    parse_call # <<>> =>
        /\ parse_call[1].out.outcome = "returned" =>
              /\ Supported(parse_call[1].file_ext)
              /\ ~EveryStrategyRaises(parse_call[1].file_content, parse_call[1].file_ext)
        /\ ~Supported(parse_call[1].file_ext) =>
              /\ parse_call[1].out.outcome = "ValueError"
              /\ parse_call[1].out.attempted = <<>>
        /\ (Supported(parse_call[1].file_ext)
            /\ EveryStrategyRaises(parse_call[1].file_content, parse_call[1].file_ext)) =>
              parse_call[1].out.outcome # "returned"

\* the index of the last match of a category in all_matches
LastMatchOf(ms, section_name) ==
    CHOOSE i \in 1..Len(ms) :
        /\ ms[i].section_name = section_name
        /\ \A k \in (i + 1)..Len(ms) : ms[k].section_name # section_name

\* the text from the end of match i to the start of the next match, or to
\* the end of the text
SpanAfter(text, ms, i) ==
    Slice(text, ms[i].end, IF i < Len(ms) THEN ms[i + 1].start ELSE Len(text))

MatchedNames(ms) == {ms[i].section_name : i \in 1..Len(ms)}

OrderedByStart(ms) == \A i \in 1..(Len(ms) - 1) : ms[i].start <= ms[i + 1].start

\* C19 as written: the matches of all categories are ordered by start, and
\* the value stored for a category is the text from the end of its last
\* match to the start of the next match of any category, or to the end of
\* the text.
C19_LastSpanStoredAsWritten ==
    sections_call # <<>> =>
        /\ OrderedByStart(sections_call[1].all_matches)
        /\ DOMAIN sections_call[1].out = MatchedNames(sections_call[1].all_matches)
        /\ \A k \in DOMAIN sections_call[1].out :
              sections_call[1].out[k] =
                  SpanAfter(sections_call[1].text, sections_call[1].all_matches,
                            LastMatchOf(sections_call[1].all_matches, k))

\* C19 amended: the value stored is that text with the whitespace at its
\* two ends removed; earlier matches of the category leave nothing.
C19_LastSpanStoredStripped ==
    sections_call # <<>> =>
        /\ OrderedByStart(sections_call[1].all_matches)
        /\ DOMAIN sections_call[1].out = MatchedNames(sections_call[1].all_matches)
        /\ \A k \in DOMAIN sections_call[1].out :
              sections_call[1].out[k] =
                  Strip(SpanAfter(sections_call[1].text, sections_call[1].all_matches,
                                  LastMatchOf(sections_call[1].all_matches, k)))

\* two Education headers with different content after each, another
\* header after the second, and the content after the second one stored
C19_Witness ==
    /\ sections_call # <<>>
    /\ \E i, j \in 1..Len(sections_call[1].all_matches) :
          /\ i < j
          /\ j < Len(sections_call[1].all_matches)
          /\ sections_call[1].all_matches[i].section_name = "education"
          /\ sections_call[1].all_matches[j].section_name = "education"
          /\ sections_call[1].out["education"]
                 = Strip(SpanAfter(sections_call[1].text, sections_call[1].all_matches, j))
          /\ sections_call[1].out["education"]
                 # Strip(SpanAfter(sections_call[1].text, sections_call[1].all_matches, i))
          /\ sections_call[1].out["education"] # <<>>

MonthNames ==
    << <<"j", "a", "n">>,
       <<"f", "e", "b">>,
       <<"m", "a", "r">>,
       <<"a", "p", "r">>,
       <<"m", "a", "y">>,
       <<"j", "u", "n">>,
       <<"j", "u", "l">>,
       <<"a", "u", "g">>,
       <<"s", "e", "p">>,
       <<"o", "c", "t">>,
       <<"n", "o", "v">>,
       <<"d", "e", "c">> >>

\* the month a date string states: that of a leading month name, June for
\* a string without one
StatedMonth(date_str) ==
    IF \E n \in 1..Len(MonthNames) : MatchWordAt(date_str, 0, MonthNames[n])
    THEN CHOOSE n \in 1..Len(MonthNames) : MatchWordAt(date_str, 0, MonthNames[n])
    ELSE 6

\* a date string read as a 'Month Year' or year-only date
StatedDate(date_str) ==
    IF _parse_date(date_str) = <<>> THEN <<>>
    ELSE Date(_parse_date(date_str)[1].year, StatedMonth(date_str))

StatedEnd(end_str, now) ==
    IF end_str = NoneVal THEN <<>>
    ELSE IF Lower(end_str) \in PresentWords THEN now
    ELSE StatedDate(end_str)

\* months from an entry's stated start to its stated end, clamped at 0;
\* 0 for an entry that cannot be parsed
StatedMonths(entry, now) ==
    IF StatedDate(entry.start_date) # <<>> /\ StatedEnd(entry.end_date, now) # <<>>
    THEN Max(0, MonthsBetween(StatedDate(entry.start_date), StatedEnd(entry.end_date, now)))
    ELSE 0

RECURSIVE StatedTotal(_, _)
StatedTotal(work_history, now) ==
    IF work_history = <<>> THEN 0
    ELSE StatedMonths(Head(work_history), now) + StatedTotal(Tail(work_history), now)

\* C20: experience_years is floor(M / 12), M being the sum over the entries
\* of the months from start to end clamped at 0, where a 'Month Year' date
\* has its stated month, a year-only date is June, Present/Current is the
\* current date and an unparseable entry adds 0.
C20_ExperienceYearsFromStatedMonths ==
    years_call # <<>> =>
        years_call[1].out = StatedTotal(years_call[1].work_history, years_call[1].now) \div 12



-----------------------------------------------------------------------------
(* The explanation of a match result, checked under SpecScorer.            *)

\* the qualitative sentence that belongs to a score given in hundredths
SentenceOfHundredths(h) ==
    IF h >= 8000 THEN "Excellent match!"
    ELSE IF h >= 6000 THEN "Good match with room for improvement."
    ELSE IF h >= 4000 THEN "Moderate match. Consider upskilling."
    ELSE "Limited match. Significant gaps identified."

\* the qualitative sentence that belongs to an exact score
SentenceOfExact(x) ==
    IF FracLE(FracOfInt(80), x) THEN "Excellent match!"
    ELSE IF FracLE(FracOfInt(60), x) THEN "Good match with room for improvement."
    ELSE IF FracLE(FracOfInt(40), x) THEN "Moderate match. Consider upskilling."
    ELSE "Limited match. Significant gaps identified."

\* the first sentence of the explanation of the result
Sentence == result[1].explanation[1].text

\* 100 times the sum of the feature_importance values of the result: the
\* weighted score before it is rounded
UnroundedOfResult ==
    LET fi == result[1].feature_importance
    IN  Percent(FracAdd(FracAdd(fi.skills, fi.semantic),
                        FracAdd(fi.experience, fi.education)))

\* the explanation names at most five overlapping and at most five gap
\* skills: the first five of each list of the result
ListsCutToFive ==
    \A i \in 1..Len(result[1].explanation) :
        LET part == result[1].explanation[i]
        IN  /\ Len(part.items) <= 5
            /\ part.text = "Matching skills: "
                   => part.items = Take(result[1].skill_overlap, 5)
            /\ part.text = "Skills to develop: "
                   => part.items = Take(result[1].skill_gaps, 5)

\* C21 (as stated): the qualitative sentence of the explanation is the one
\* that belongs to the overall_score field of the same result (Excellent
\* from 80, Good from 60, Moderate from 40, Limited below), and the
\* explanation lists at most 5 overlapping and at most 5 gap skills.
C21_SentenceOfReturnedScore ==
    Scored => /\ Sentence = SentenceOfHundredths(result[1].overall_score)
              /\ ListsCutToFive

\* C21 (amended): the qualitative sentence is the one that belongs to the
\* weighted score before rounding (100 times the sum of the result's
\* feature_importance values), and the explanation lists at most 5
\* overlapping and at most 5 gap skills.
C21_SentenceOfUnroundedScore ==
    Scored => /\ Sentence = SentenceOfExact(UnroundedOfResult)
              /\ ListsCutToFive

\* a result whose overall_score is 80.00 after rounding and below 80 before,
\* with six overlapping skills of which the explanation names five
C21_Witness ==
    /\ Scored
    /\ result[1].overall_score = 8000
    /\ FracLT(UnroundedOfResult, FracOfInt(80))
    /\ Len(result[1].skill_overlap) = 6
    /\ \E i \in 1..Len(result[1].explanation) :
           /\ result[1].explanation[i].text = "Matching skills: "
           /\ Len(result[1].explanation[i].items) = 5


-----------------------------------------------------------------------------
(* Skill-gap aggregation: RecommendationService.generate_skill_gap_analysis *)
(* (backend/services/recommendation_service.py:202-270)                    *)

\* skill.lower() raises AttributeError on a None element
GapRaises(resume_, jobs) ==
    \/ \E i \in 1..Len(OrEmptyList(resume_.skills)) :
           OrEmptyList(resume_.skills)[i] = NoneVal
    \/ \E k \in 1..Len(jobs) :
           \E i \in 1..Len(OrEmptyList(jobs[k].skills_required)) :
               OrEmptyList(jobs[k].skills_required)[i] = NoneVal

\* the values skill_lower takes, in the order of the two nested loops
RECURSIVE RequiredOccurrences(_)
RequiredOccurrences(jobs) ==
    IF jobs = <<>> THEN <<>>
    ELSE LET job_skills == OrEmptyList(Head(jobs).skills_required)
         IN  [i \in 1..Len(job_skills) |-> Lower(job_skills[i])]
             \o RequiredOccurrences(Tail(jobs))

\* the keys of the dict all_required_skills, in insertion order
KeysOf(occurrences) ==
    LET firsts == SelectSeq([i \in 1..Len(occurrences) |-> i],
                     LAMBDA i : \A k \in 1..(i - 1) : occurrences[k] # occurrences[i])
    IN  [p \in 1..Len(firsts) |-> occurrences[firsts[p]]]

\* all_required_skills[skill]: one is added at every occurrence
CountOf(occurrences, skill) ==
    Cardinality({i \in 1..Len(occurrences) : occurrences[i] = skill})

\* sorted(items, key=count, reverse=True): stable, so equal counts keep
\* their dict order
SortByCount(items) ==
    LET pos(i) == 1 + Cardinality({k \in 1..Len(items) :
                         \/ items[k].count > items[i].count
                         \/ items[k].count = items[i].count /\ k < i})
    IN  [p \in 1..Len(items) |-> items[CHOOSE i \in 1..Len(items) : pos(i) = p]]

SkillsOf(items) == [i \in 1..Len(items) |-> items[i].skill]

\* _generate_gap_recommendation(critical, important)
_generate_gap_recommendation(critical, important) ==
    IF critical = <<>> /\ important = <<>>
    THEN Part("Your skills align well with the job market. Keep building on your strengths!", <<>>, 0)
    ELSE IF critical # <<>>
    THEN Part("Focus on learning ... to significantly improve your marketability.", Take(critical, 3), 0)
    ELSE Part("Consider developing ... to enhance your profile.", Take(important, 3), 0)

\* generate_skill_gap_analysis.  len(jobs) * 0.7 and len(jobs) * 0.3 are
\* compared with an integer count; for fewer than ten jobs neither product
\* is within rounding error of an integer, so 10 * c is compared with
\* 7 * len(jobs) and 3 * len(jobs).  critical, important and nice are the
\* three lists before they are cut to five.
generate_skill_gap_analysis(resume_, jobs) ==
    IF GapRaises(resume_, jobs) THEN [status |-> "raise"]
    ELSE
    LET rs == OrEmptyList(resume_.skills)
        resume_skills == {Lower(rs[i]) : i \in 1..Len(rs)}
        occurrences == RequiredOccurrences(jobs)
        keys == KeysOf(occurrences)
        all_required_skills ==
            [i \in 1..Len(keys) |->
                [skill |-> keys[i], count |-> CountOf(occurrences, keys[i])]]
        missing_skills ==
            SelectSeq(all_required_skills, LAMBDA it : it.skill \notin resume_skills)
        sorted_gaps == SortByCount(missing_skills)
        n == Len(jobs)
        critical_gaps ==
            SkillsOf(SelectSeq(sorted_gaps, LAMBDA it : 10 * it.count >= 7 * n))
        important_gaps ==
            SkillsOf(SelectSeq(sorted_gaps,
                LAMBDA it : 3 * n <= 10 * it.count /\ 10 * it.count < 7 * n))
        nice_to_have ==
            SkillsOf(SelectSeq(sorted_gaps, LAMBDA it : 10 * it.count < 3 * n))
    IN  [status |-> "ok",
         total_jobs_analyzed |-> n,
         current_skills |-> SetToList(resume_skills),
         critical_gaps |-> Take(critical_gaps, 5),
         important_gaps |-> Take(important_gaps, 5),
         nice_to_have |-> Take(nice_to_have, 5),
         overall_coverage |->
             IF keys = <<>> THEN FracOfInt(100)
             ELSE Percent(Frac(Cardinality(resume_skills \cap Range(keys)), Len(keys))),
         recommendation |-> _generate_gap_recommendation(critical_gaps, important_gaps),
         critical |-> critical_gaps,
         important |-> important_gaps,
         nice |-> nice_to_have]

-----------------------------------------------------------------------------
(* The aggregation on its own: a RecommendationService is constructed and  *)
(* generate_skill_gap_analysis is called once on a resume and a job set.   *)

MaxGapJobs == 3

\* Job.skills_required of the jobs of the set (models/job.py:48)
GapSkillsPool ==
    { NoneList, <<S_Python, S_go, S_python>>, <<S_python, S_sql, S_docker>>,
      <<S_go>>, SixSkills, <<S_sql, NoneVal>> }

GapJobLists ==
    UNION { [1..k -> [skills_required : GapSkillsPool]] : k \in 0..MaxGapJobs }

\* Resume.skills (models/resume.py:49)
GapResumes == [skills : {NoneList, <<S_SQL>>, <<S_Python, S_SQL>>}]

InitGaps ==
    /\ InitProcess
    /\ ScorerIdle
    /\ EducationIdle
    /\ MonitorIdle
    /\ ExtractorIdle
    /\ GapIdle
    /\ ApiIdle
    /\ RankerIdle
    /\ EmbedIdle
    /\ ParserIdle

\* await recommendation_service.generate_skill_gap_analysis(resume, jobs)
SkillGapAnalysis(resume_, jobs) ==
    /\ rec_svc
    /\ gap_call = <<>>
    /\ gap_call' = << [resume |-> resume_, jobs |-> jobs,
                      returned |-> generate_skill_gap_analysis(resume_, jobs)] >>
    /\ UNCHANGED <<EMBEDDINGS_AVAILABLE, _model, scorerVars, apiVars, rankerVars, embedVars, parserVars, extractorVars, monitorVars, educationVars>>

NextGaps ==
    \/ \E loadOk \in BOOLEAN : RecommendationService_init(loadOk)
    \/ /\ rec_svc /\ gap_call = <<>>
       /\ \E resume_ \in GapResumes, jobs \in GapJobLists :
              SkillGapAnalysis(resume_, jobs)

SpecGaps == InitGaps /\ [][NextGaps]_vars

\* the analysis returned
Analysed == gap_call # <<>> /\ gap_call[1].returned.status = "ok"

\* the lower-cased skills job k of the analysed set requires
RequiredBy(k) ==
    LET js == OrEmptyList(gap_call[1].jobs[k].skills_required)
    IN  {Lower(js[i]) : i \in 1..Len(js)}

\* the number of jobs of the analysed set that require the skill
JobsRequiring(skill) ==
    Cardinality({k \in 1..Len(gap_call[1].jobs) : skill \in RequiredBy(k)})

\* the skills some job requires and the resume lacks
MissingSkills ==
    LET rs == OrEmptyList(gap_call[1].resume.skills)
    IN  (UNION {RequiredBy(k) : k \in 1..Len(gap_call[1].jobs)})
        \ {Lower(rs[i]) : i \in 1..Len(rs)}

\* C22: a skill absent from the resume is critical if and only if the
\* number of jobs requiring it is at least 70% of the jobs, important if
\* and only if that number is at least 30% and below 70%, nice-to-have
\* otherwise; every missing skill is in exactly one class (before the cut
\* to 5), a skill counting once per job.
C22_ClassByShareOfJobs ==
    Analysed =>
        LET r == gap_call[1].returned
            n == Len(gap_call[1].jobs)
        IN  \A s \in MissingSkills :
                /\ s \in Range(r.critical) <=> 10 * JobsRequiring(s) >= 7 * n
                /\ s \in Range(r.important)
                       <=> (3 * n <= 10 * JobsRequiring(s) /\ 10 * JobsRequiring(s) < 7 * n)
                /\ s \in Range(r.nice) <=> 10 * JobsRequiring(s) < 3 * n
                /\ Cardinality({i \in 1..Len(r.critical) : r.critical[i] = s})
                   + Cardinality({i \in 1..Len(r.important) : r.important[i] = s})
                   + Cardinality({i \in 1..Len(r.nice) : r.nice[i] = s}) = 1


-----------------------------------------------------------------------------
(* Skill Extractor: backend/services/skill_extractor.py                    *)

\* the keys of the dict SKILLS_DATABASE (skill_extractor.py:27-166); the
\* category each key maps to is not read by extract
SKILLS_DATABASE ==
    { <<"p","y","t","h","o","n">>,
      <<"j","a","v","a","s","c","r","i","p","t">>,
      <<"t","y","p","e","s","c","r","i","p","t">>,
      <<"j","a","v","a">>,
      <<"c","+","+">>,
      <<"c","#">>,
      <<"g","o">>,
      <<"g","o","l","a","n","g">>,
      <<"r","u","s","t">>,
      <<"r","u","b","y">>,
      <<"p","h","p">>,
      <<"s","w","i","f","t">>,
      <<"k","o","t","l","i","n">>,
      <<"s","c","a","l","a">>,
      <<"r">>,
      <<"m","a","t","l","a","b">>,
      <<"s","q","l">>,
      <<"h","t","m","l">>,
      <<"c","s","s">>,
      <<"r","e","a","c","t">>,
      <<"r","e","a","c","t","j","s">>,
      <<"r","e","a","c","t",".","j","s">>,
      <<"a","n","g","u","l","a","r">>,
      <<"v","u","e">>,
      <<"v","u","e","j","s">>,
      <<"v","u","e",".","j","s">>,
      <<"n","o","d","e","j","s">>,
      <<"n","o","d","e",".","j","s">>,
      <<"e","x","p","r","e","s","s">>,
      <<"d","j","a","n","g","o">>,
      <<"f","l","a","s","k">>,
      <<"f","a","s","t","a","p","i">>,
      <<"s","p","r","i","n","g">>,
      <<"s","p","r","i","n","g"," ","b","o","o","t">>,
      <<"a","s","p",".","n","e","t">>,
      <<"t","a","i","l","w","i","n","d","c","s","s">>,
      <<"b","o","o","t","s","t","r","a","p">>,
      <<"s","a","s","s">>,
      <<"w","e","b","p","a","c","k">>,
      <<"n","e","x","t","j","s">>,
      <<"n","e","x","t",".","j","s">>,
      <<"m","y","s","q","l">>,
      <<"p","o","s","t","g","r","e","s","q","l">>,
      <<"m","o","n","g","o","d","b">>,
      <<"r","e","d","i","s">>,
      <<"e","l","a","s","t","i","c","s","e","a","r","c","h">>,
      <<"s","q","l","i","t","e">>,
      <<"o","r","a","c","l","e">>,
      <<"c","a","s","s","a","n","d","r","a">>,
      <<"d","y","n","a","m","o","d","b">>,
      <<"a","w","s">>,
      <<"a","m","a","z","o","n"," ","w","e","b"," ","s","e","r","v","i","c","e","s">>,
      <<"a","z","u","r","e">>,
      <<"g","c","p">>,
      <<"g","o","o","g","l","e"," ","c","l","o","u","d">>,
      <<"d","o","c","k","e","r">>,
      <<"k","u","b","e","r","n","e","t","e","s">>,
      <<"k","8","s">>,
      <<"t","e","r","r","a","f","o","r","m">>,
      <<"a","n","s","i","b","l","e">>,
      <<"j","e","n","k","i","n","s">>,
      <<"c","i","/","c","d">>,
      <<"g","i","t","h","u","b"," ","a","c","t","i","o","n","s">>,
      <<"g","i","t","l","a","b"," ","c","i">>,
      <<"l","i","n","u","x">>,
      <<"u","n","i","x">>,
      <<"b","a","s","h">>,
      <<"m","a","c","h","i","n","e"," ","l","e","a","r","n","i","n","g">>,
      <<"d","e","e","p"," ","l","e","a","r","n","i","n","g">>,
      <<"a","r","t","i","f","i","c","i","a","l"," ","i","n","t","e","l","l","i","g","e","n","c","e">>,
      <<"a","i">>,
      <<"m","l">>,
      <<"t","e","n","s","o","r","f","l","o","w">>,
      <<"p","y","t","o","r","c","h">>,
      <<"k","e","r","a","s">>,
      <<"s","c","i","k","i","t","-","l","e","a","r","n">>,
      <<"s","k","l","e","a","r","n">>,
      <<"p","a","n","d","a","s">>,
      <<"n","u","m","p","y">>,
      <<"s","c","i","p","y">>,
      <<"m","a","t","p","l","o","t","l","i","b">>,
      <<"d","a","t","a"," ","a","n","a","l","y","s","i","s">>,
      <<"d","a","t","a"," ","s","c","i","e","n","c","e">>,
      <<"n","l","p">>,
      <<"n","a","t","u","r","a","l"," ","l","a","n","g","u","a","g","e"," ","p","r","o","c","e","s","s","i","n","g">>,
      <<"c","o","m","p","u","t","e","r"," ","v","i","s","i","o","n">>,
      <<"o","p","e","n","c","v">>,
      <<"n","e","u","r","a","l"," ","n","e","t","w","o","r","k","s">>,
      <<"t","r","a","n","s","f","o","r","m","e","r","s">>,
      <<"b","e","r","t">>,
      <<"g","p","t">>,
      <<"l","l","m">>,
      <<"h","u","g","g","i","n","g","f","a","c","e">>,
      <<"g","i","t">>,
      <<"g","i","t","h","u","b">>,
      <<"g","i","t","l","a","b">>,
      <<"j","i","r","a">>,
      <<"c","o","n","f","l","u","e","n","c","e">>,
      <<"s","l","a","c","k">>,
      <<"f","i","g","m","a">>,
      <<"p","o","s","t","m","a","n">>,
      <<"s","w","a","g","g","e","r">>,
      <<"g","r","a","p","h","q","l">>,
      <<"r","e","s","t"," ","a","p","i">>,
      <<"r","e","s","t","f","u","l">>,
      <<"m","i","c","r","o","s","e","r","v","i","c","e","s">>,
      <<"a","g","i","l","e">>,
      <<"s","c","r","u","m">>,
      <<"k","a","n","b","a","n">>,
      <<"l","e","a","d","e","r","s","h","i","p">>,
      <<"c","o","m","m","u","n","i","c","a","t","i","o","n">>,
      <<"t","e","a","m","w","o","r","k">>,
      <<"p","r","o","b","l","e","m"," ","s","o","l","v","i","n","g">>,
      <<"p","r","o","b","l","e","m","-","s","o","l","v","i","n","g">>,
      <<"c","r","i","t","i","c","a","l"," ","t","h","i","n","k","i","n","g">>,
      <<"t","i","m","e"," ","m","a","n","a","g","e","m","e","n","t">>,
      <<"p","r","o","j","e","c","t"," ","m","a","n","a","g","e","m","e","n","t">>,
      <<"a","n","a","l","y","t","i","c","a","l">>,
      <<"c","r","e","a","t","i","v","e">>,
      <<"d","e","t","a","i","l","-","o","r","i","e","n","t","e","d">>,
      <<"s","e","l","f","-","m","o","t","i","v","a","t","e","d">>,
      <<"a","d","a","p","t","a","b","i","l","i","t","y">>,
      <<"c","o","l","l","a","b","o","r","a","t","i","o","n">>,
      <<"m","e","n","t","o","r","i","n","g">>,
      <<"p","r","e","s","e","n","t","a","t","i","o","n">> }

\* the dict SKILL_ALIASES (skill_extractor.py:169-182)
SKILL_ALIASES ==
    { [alias |-> <<"r","e","a","c","t","j","s">>, canonical |-> <<"r","e","a","c","t">>],
      [alias |-> <<"r","e","a","c","t",".","j","s">>, canonical |-> <<"r","e","a","c","t">>],
      [alias |-> <<"v","u","e","j","s">>, canonical |-> <<"v","u","e">>],
      [alias |-> <<"v","u","e",".","j","s">>, canonical |-> <<"v","u","e">>],
      [alias |-> <<"n","o","d","e","j","s">>, canonical |-> <<"n","o","d","e",".","j","s">>],
      [alias |-> <<"n","e","x","t","j","s">>, canonical |-> <<"n","e","x","t",".","j","s">>],
      [alias |-> <<"g","o","l","a","n","g">>, canonical |-> <<"g","o">>],
      [alias |-> <<"k","8","s">>, canonical |-> <<"k","u","b","e","r","n","e","t","e","s">>],
      [alias |-> <<"p","o","s","t","g","r","e","s">>, canonical |-> <<"p","o","s","t","g","r","e","s","q","l">>],
      [alias |-> <<"m","o","n","g","o">>, canonical |-> <<"m","o","n","g","o","d","b">>],
      [alias |-> <<"s","k","l","e","a","r","n">>, canonical |-> <<"s","c","i","k","i","t","-","l","e","a","r","n">>],
      [alias |-> <<"t","f">>, canonical |-> <<"t","e","n","s","o","r","f","l","o","w">>] }

\* the characters the regular expression class \w matches
WordChars == Letters \cup DigitSet \cup {"_"}

\* \b at offset p of text: exactly one of the characters before and after
\* the offset is a word character (the ends of the text count as non-word)
WordBoundary(text, p) ==
    (p >= 1 /\ text[p] \in WordChars) # (p < Len(text) /\ text[p + 1] \in WordChars)

\* re.search(r'\b' + re.escape(skill) + r'\b', text, re.IGNORECASE)
SearchSkill(skill, text) ==
    \E i \in 0..(Len(text) - Len(skill)) :
        /\ WordBoundary(text, i)
        /\ \A k \in 1..Len(skill) : LowerChar(text[i + k]) = LowerChar(skill[k])
        /\ WordBoundary(text, i + Len(skill))

_extract_by_keywords(text) ==
    {skill \in SKILLS_DATABASE : SearchSkill(skill, text)}

\* chunks: the spans of text (pairs of offsets) that doc.noun_chunks and
\* doc.ents yield before the loops end or nlp raises
_extract_by_nlp(text, chunks) ==
    {Lower(Strip(Slice(text, c[1], c[2]))) : c \in chunks} \cap SKILLS_DATABASE

\* variant: the skills are returned as found, aliases included
_normalize_skills_asfound(skills) == skills

_normalize_skills(skills) ==
    {IF \E a \in SKILL_ALIASES : a.alias = skill
       THEN (CHOOSE a \in SKILL_ALIASES : a.alias = skill).canonical
       ELSE skill : skill \in skills}

\* SkillExtractorService.extract; self_nlp: the module's nlp is not None
extract(self_nlp, text, chunks) ==
    IF text = <<>> THEN <<>>
    ELSE LET text_lower == Lower(text)
             keyword_skills == _extract_by_keywords(text_lower)
             nlp_skills == IF self_nlp THEN _extract_by_nlp(text, chunks) ELSE {}
         IN  SetToList(_normalize_skills(keyword_skills \cup nlp_skills))

-----------------------------------------------------------------------------
(* The extractor on its own: extract is called once on a text; when spaCy  *)
(* is loaded, the pipeline yields some spans of the text.                  *)

MaxSkillWords == 2

MaxChunks == 1

W_ReactJS == <<"R","e","a","c","t","J","S">>

W_react_js == <<"r","e","a","c","t",".","j","s">>

W_Golang == <<"G","o","l","a","n","g">>

W_Cpp == <<"C","+","+">>

W_Postgres == <<"P","o","s","t","g","r","e","s">>

SkillWords == {W_ReactJS, W_react_js, W_Golang, W_Cpp, W_Postgres}

RECURSIVE JoinWords(_)
JoinWords(ws) ==
    IF ws = <<>> THEN <<>>
    ELSE IF Len(ws) = 1 THEN ws[1]
    ELSE ws[1] \o <<" ">> \o JoinWords(Tail(ws))

\* texts of up to MaxSkillWords words separated by single blanks
ExtractTexts ==
    {JoinWords(ws) : ws \in UNION {[1..k -> SkillWords] : k \in 0..MaxSkillWords}}

\* the spans a tokenizer can cut out of a text: from the start of a word or
\* of a blank to the end of a word or of a blank
SpansOf(text) ==
    {<<a, b>> \in (0..Len(text)) \X (0..Len(text)) :
        /\ a < b
        /\ a = 0 \/ text[a] = " " \/ text[a + 1] = " "
        /\ b = Len(text) \/ text[b + 1] = " " \/ text[b] = " "}

ChunkSets(text) ==
    {cs \in SUBSET SpansOf(text) : Cardinality(cs) <= MaxChunks}

InitExtractor ==
    /\ EMBEDDINGS_AVAILABLE = FALSE
    /\ _model = "None"
    /\ ScorerIdle
    /\ EducationIdle
    /\ MonitorIdle
    /\ GapIdle
    /\ ApiIdle
    /\ RankerIdle
    /\ EmbedIdle
    /\ ParserIdle
    /\ nlp \in BOOLEAN
    /\ extract_call = <<>>

\* await skill_extractor.extract(text)
Extract(text, chunks) ==
    /\ extract_call = <<>>
    /\ nlp \/ chunks = {}
    /\ extract_call' = << [text |-> text, chunks |-> chunks,
                          returned |-> extract(nlp, text, chunks)] >>
    /\ UNCHANGED <<EMBEDDINGS_AVAILABLE, _model, scorerVars, apiVars, rankerVars, embedVars, parserVars, gapVars, nlp, monitorVars, educationVars>>

NextExtractor ==
    /\ extract_call = <<>>
    /\ \E text \in ExtractTexts : \E chunks \in ChunkSets(text) : Extract(text, chunks)

SpecExtractor == InitExtractor /\ [][NextExtractor]_vars

AliasKeys == {a.alias : a \in SKILL_ALIASES}

\* C23: extract returns only canonical taxonomy skills: every element is a
\* key of SKILLS_DATABASE, none is a key of SKILL_ALIASES, there are no
\* duplicates; with the NLP pass on or off.
C23_OnlyCanonicalTaxonomySkills ==
    extract_call # <<>> =>
        LET returned == extract_call[1].returned
        IN  /\ \A i \in 1..Len(returned) :
                   /\ returned[i] \in SKILLS_DATABASE
                   /\ returned[i] \notin AliasKeys
            /\ \A i, k \in 1..Len(returned) : i # k => returned[i] # returned[k]

\* the text "ReactJS C++" with the NLP pass yielding the span "C++": the
\* alias reactjs is returned as react, and c++ comes from the NLP pass alone
C23_Witness ==
    /\ extract_call # <<>>
    /\ nlp
    /\ extract_call[1].text = JoinWords(<<W_ReactJS, W_Cpp>>)
    /\ Range(extract_call[1].returned) = {<<"r","e","a","c","t">>, <<"c","+","+">>}


-----------------------------------------------------------------------------
(* Concurrent POST /calculate requests, checked under Spec.                *)

\* C24: after any interleaving of POST /calculate requests for the same
\* (resume_id, job_id), at most one Match row exists for the pair, so the
\* existing-match lookup finds zero or one row and all answered requests
\* for the pair return the same record.
C24_AtMostOneMatchPerPair ==
    /\ \A resume_id \in RequestedResumeIds, job_id \in RequestedJobIds :
           Len(MatchesOf(resume_id, job_id)) <= 1
    /\ \A q1, q2 \in RequestIds :
           (/\ requests[q1].op = "calculate" /\ requests[q2].op = "calculate"
            /\ requests[q1].pc = "done" /\ requests[q2].pc = "done"
            /\ requests[q1].status = 201 /\ requests[q2].status = 201
            /\ requests[q1].resume_id = requests[q2].resume_id
            /\ requests[q1].job_id = requests[q2].job_id)
               => requests[q1].body = requests[q2].body


-----------------------------------------------------------------------------
(* The overlap of a match result, checked under SpecScorer.                *)

\* the lower-cased skills the scored job requires
RequiredOfJob ==
    LET js == OrEmptyList(job[1].skills_required)
    IN  {Lower(js[i]) : i \in 1..Len(js)}

\* C25: in every calculate_match result, also when the job requires no
\* skills, skill_overlap is a subset of the job's required skills
\* (lower-cased), so its length counts only skills the job requires.
C25_OverlapWithinRequired ==
    Scored => Range(result[1].skill_overlap) \subseteq RequiredOfJob


-----------------------------------------------------------------------------
(* The limit of generate, checked under SpecRanker.                        *)

\* C26: for every integer limit the request accepts, 0 and negative values
\* included, generate returns at most max(0, limit) items.
C26_AtMostLimitItems ==
    ranked # <<>> => Len(Call.out) <= Max(0, Call.limit)


-----------------------------------------------------------------------------
(* Who can read a match, checked under Spec.                               *)

\* the user who owns the resume of a Match row
OwnerOf(resume_id) ==
    (CHOOSE r \in Range(ResumesTable) : r.id = resume_id).user_id

\* the Match rows whose data the answered request q carries
MatchDataOf(q) ==
    IF requests[q].pc # "done" \/ requests[q].status \notin {200, 201} THEN {}
    ELSE IF requests[q].op \in {"calculate", "list", "get"}
         THEN {requests[q].body[i].resume_id : i \in 1..Len(requests[q].body)}
    ELSE IF requests[q].op = "explain"
         THEN {m.resume_id : m \in Range(MatchById(requests[q].match_id))}
    ELSE {}

\* C27: every match endpoint (calculate, list by resume, get by id, explain
\* by id) returns match data to user u only if the match's resume belongs
\* to u.
C27_MatchDataOnlyToOwner ==
    \A q \in RequestIds :
        \A resume_id \in MatchDataOf(q) : OwnerOf(resume_id) = requests[q].user


-----------------------------------------------------------------------------
(* Job Monitor: backend/tasks/job_monitor.py                               *)

\* skills_keywords of JobScraperService.extract_skills_from_text
\* (job_scraper.py:385-394)
skills_keywords ==
    << <<"p","y","t","h","o","n">>,
       <<"j","a","v","a","s","c","r","i","p","t">>,
       <<"t","y","p","e","s","c","r","i","p","t">>,
       <<"r","e","a","c","t">>,
       <<"n","o","d","e",".","j","s">>,
       <<"n","o","d","e","j","s">>,
       <<"j","a","v","a">>,
       <<"c","+","+">>,
       <<"c","#">>,
       <<"g","o">>,
       <<"g","o","l","a","n","g">>,
       <<"r","u","s","t">>,
       <<"r","u","b","y">>,
       <<"p","h","p">>,
       <<"s","q","l">>,
       <<"p","o","s","t","g","r","e","s","q","l">>,
       <<"m","y","s","q","l">>,
       <<"m","o","n","g","o","d","b">>,
       <<"r","e","d","i","s">>,
       <<"e","l","a","s","t","i","c","s","e","a","r","c","h">>,
       <<"a","w","s">>,
       <<"a","z","u","r","e">>,
       <<"g","c","p">>,
       <<"d","o","c","k","e","r">>,
       <<"k","u","b","e","r","n","e","t","e","s">>,
       <<"t","e","r","r","a","f","o","r","m">>,
       <<"m","a","c","h","i","n","e"," ","l","e","a","r","n","i","n","g">>,
       <<"d","e","e","p"," ","l","e","a","r","n","i","n","g">>,
       <<"a","i">>,
       <<"n","l","p">>,
       <<"p","y","t","o","r","c","h">>,
       <<"t","e","n","s","o","r","f","l","o","w">>,
       <<"r","e","a","c","t"," ","n","a","t","i","v","e">>,
       <<"f","l","u","t","t","e","r">>,
       <<"s","w","i","f","t">>,
       <<"k","o","t","l","i","n">>,
       <<"a","n","d","r","o","i","d">>,
       <<"i","o","s">>,
       <<"g","i","t">>,
       <<"a","g","i","l","e">>,
       <<"s","c","r","u","m">>,
       <<"d","e","v","o","p","s">>,
       <<"c","i","/","c","d">>,
       <<"j","e","n","k","i","n","s">>,
       <<"f","a","s","t","a","p","i">>,
       <<"d","j","a","n","g","o">>,
       <<"f","l","a","s","k">>,
       <<"e","x","p","r","e","s","s">>,
       <<"s","p","r","i","n","g">>,
       <<"r","a","i","l","s">> >>

\* the default skills of get_user_skills (job_monitor.py:90-94)
default_skills ==
    << <<"p","y","t","h","o","n">>,
       <<"m","a","c","h","i","n","e"," ","l","e","a","r","n","i","n","g">>,
       <<"a","i">>,
       <<"n","l","p">>,
       <<"d","e","e","p"," ","l","e","a","r","n","i","n","g">>,
       <<"f","a","s","t","a","p","i">>,
       <<"r","e","a","c","t">>,
       <<"j","a","v","a","s","c","r","i","p","t">>,
       <<"s","q","l">>,
       <<"d","o","c","k","e","r">>,
       <<"p","y","t","o","r","c","h">>,
       <<"t","e","n","s","o","r","f","l","o","w">>,
       <<"d","a","t","a"," ","s","c","i","e","n","c","e">> >>

\* JobScraperService.extract_skills_from_text (job_scraper.py:383-403)
extract_skills_from_text(text) ==
    Take(SelectSeq(skills_keywords, LAMBDA skill : Contains(Lower(text), skill)), 10)

\* get_user_skills (job_monitor.py:61-100); skills: the skills of all
\* resumes in the database, [] also when the query raises.  The result is
\* list(set(...)): its order decides only which ten skills the scraper gets
\* as keywords, so the set is kept.
get_user_skills(skills) ==
    LET found == IF skills = <<>> THEN default_skills ELSE skills
    IN  {Lower(found[i]) : i \in 1..Len(found)}

K_remote == <<"r","e","m","o","t","e">>

K_islamabad == <<"i","s","l","a","m","a","b","a","d">>

K_pakistan == <<"p","a","k","i","s","t","a","n">>

\* calculate_match_score (job_monitor.py:102-142)
calculate_match_score(job_, user_skills) ==
    LET job_text == Lower(job_.title \o <<" ">> \o job_.description)
        job_skills == IF job_.skills_required = <<>>
                      THEN extract_skills_from_text(job_text)
                      ELSE job_.skills_required
        lowered == {Lower(job_skills[i]) : i \in 1..Len(job_skills)}
        location == Lower(job_.location)
        remote_option == Lower(job_.remote_option)
        base_score ==
            30 + (IF Contains(location, K_remote) \/ Contains(remote_option, K_remote)
                    THEN 20 ELSE 0)
               + (IF Contains(location, K_islamabad) \/ Contains(location, K_pakistan)
                    THEN 25 ELSE 0)
        matched == Cardinality({skill \in user_skills :
                        Contains(job_text, Lower(skill)) \/ Lower(skill) \in lowered})
        skill_score == Min(50, matched * 10)
    IN  Min(100, base_score + skill_score)

\* f"{job.get('title', '')}|{job.get('company', '')}|{job_url}"
job_key(job_) == job_.title \o <<"|">> \o job_.company \o <<"|">> \o job_.apply_url

\* the loop "Filter to new jobs only" (job_monitor.py:177-185): the jobs
\* appended to new_jobs, given self.seen_jobs at the start
RECURSIVE new_jobs_of(_, _)
new_jobs_of(all_jobs, seen) ==
    IF all_jobs = <<>> THEN <<>>
    ELSE IF job_key(Head(all_jobs)) \notin seen
         THEN << Head(all_jobs) >>
              \o new_jobs_of(Tail(all_jobs), seen \cup {job_key(Head(all_jobs))})
         ELSE new_jobs_of(Tail(all_jobs), seen)

\* matching_jobs.sort(key=match_score, reverse=True): stable
SortByMatchScore(jobs) ==
    LET pos(i) == 1 + Cardinality({k \in 1..Len(jobs) :
                         \/ jobs[k].match_score > jobs[i].match_score
                         \/ jobs[k].match_score = jobs[i].match_score /\ k < i})
    IN  [p \in 1..Len(jobs) |-> jobs[CHOOSE i \in 1..Len(jobs) : pos(i) = p]]

\* Job(...) of a scraped job (job_monitor.py:264-277)
JobRow(job_data) ==
    [title |-> Take(job_data.title, 255),
     company |-> Take(job_data.company, 255),
     description |-> Take(job_data.description, 5000),
     location |-> Take(job_data.location, 255),
     remote_option |-> Take(job_data.remote_option, 50),
     skills_required |-> job_data.skills_required,
     apply_url |-> Take(job_data.apply_url, 500),
     is_active |-> 1]

\* the rows session.add was called with: one per job without a row of the
\* same title, company and apply_url
RECURSIVE AddedRows(_, _)
AddedRows(jobs, table) ==
    IF jobs = <<>> THEN <<>>
    ELSE LET job_data == Head(jobs)
             existing == SelectSeq(table, LAMBDA row :
                             /\ row.title = job_data.title
                             /\ row.company = job_data.company
                             /\ row.apply_url = job_data.apply_url)
         IN  IF existing = <<>>
             THEN << JobRow(job_data) >>
                  \o AddedRows(Tail(jobs), Append(table, JobRow(job_data)))
             ELSE AddedRows(Tail(jobs), table)

\* _store_jobs_in_db (job_monitor.py:245-286).  outcome "ok": the commit
\* succeeds; "no_session": opening the session or the first query raises;
\* "no_commit": session.commit() raises.  An exception is logged and the
\* count reached so far is returned; nothing of the session is stored.
_store_jobs_in_db(jobs, table, outcome) ==
    LET added == AddedRows(jobs, table)
    IN  IF outcome = "ok" THEN [table |-> table \o added, stored |-> Len(added)]
        ELSE IF outcome = "no_commit" THEN [table |-> table, stored |-> Len(added)]
        ELSE [table |-> table, stored |-> 0]

\* _load_seen_jobs (job_monitor.py:40-49); loadOk: open and json.load do
\* not raise
_load_seen_jobs(file, loadOk) ==
    IF file # <<>> /\ loadOk THEN file[1] ELSE {}

\* _save_seen_jobs (job_monitor.py:51-59); saveOk: open and json.dump do
\* not raise.  A failed write is logged and leaves the file as it was.
_save_seen_jobs(file, seen, saveOk) ==
    IF saveOk THEN << seen >> ELSE file

KeysOfJobs(jobs) == [i \in 1..Len(jobs) |-> job_key(jobs[i])]

\* run_monitor (job_monitor.py:144-243): the new state of seen_jobs, of the
\* cache file and of the jobs table, and what the run did
run_monitor(seen, file, table, all_jobs, skills, min_match_score, outcome, saveOk) ==
    LET user_skills == get_user_skills(skills)
        new_jobs == new_jobs_of(all_jobs, seen)
        seen_after == seen \cup {job_key(all_jobs[i]) : i \in 1..Len(all_jobs)}
        scored == [i \in 1..Len(new_jobs) |->
                      [job |-> new_jobs[i],
                       match_score |-> calculate_match_score(new_jobs[i], user_skills)]]
        matching_jobs ==
            SortByMatchScore(SelectSeq(scored, LAMBDA j : j.match_score >= min_match_score))
        matching == [i \in 1..Len(matching_jobs) |-> matching_jobs[i].job]
        store == _store_jobs_in_db(matching, table, outcome)
    IN  [seen_jobs |-> seen_after,
         cache_file |-> _save_seen_jobs(file, seen_after, saveOk),
         stored_jobs |-> store.table,
         summary |->
             [total_scraped |-> Len(all_jobs),
              new_jobs |-> KeysOfJobs(new_jobs),
              scored |-> KeysOfJobs(new_jobs),
              matching_jobs |-> KeysOfJobs(matching),
              stored_in_db |-> store.stored,
              notified |-> KeysOfJobs(Take(matching, 10))]]

-----------------------------------------------------------------------------
(* The monitor on its own: JobMonitor objects are constructed (each loads  *)
(* the cache file) and run_monitor is called, one run after the other.     *)

MaxRuns == 2

MaxScraped == 2

DefaultMinMatchScore == 40

M_ML_dev == <<"M","L"," ","d","e","v">>

M_Cook == <<"C","o","o","k">>

M_python == <<"p","y","t","h","o","n">>

M_Remote == <<"R","e","m","o","t","e">>

M_Paris == <<"P","a","r","i","s">>

M_url_a == <<"u","/","a">>

M_url_b == <<"u","/","b">>

M_url_c == <<"u","/","c">>

\* the job dicts the scraper can return
ScrapedJobs ==
    { [title |-> M_ML_dev, company |-> C_Acme, apply_url |-> M_url_a,
       description |-> M_python, location |-> M_Remote,
       remote_option |-> M_Remote, skills_required |-> <<>>],
      [title |-> M_ML_dev, company |-> C_Acme, apply_url |-> M_url_b,
       description |-> M_python, location |-> M_Paris,
       remote_option |-> <<>>, skills_required |-> <<S_SQL>>],
      [title |-> M_Cook, company |-> C_Acme, apply_url |-> M_url_c,
       description |-> <<>>, location |-> M_Paris,
       remote_option |-> <<>>, skills_required |-> <<>>] }

ScrapedLists == UNION { [1..k -> ScrapedJobs] : k \in 0..MaxScraped }

\* the skills of the resumes in the database
DbSkillsPool == { <<>>, <<S_SQL>> }

StoreOutcomes == {"ok", "no_session", "no_commit"}

InitMonitor ==
    /\ EMBEDDINGS_AVAILABLE = FALSE
    /\ _model = "None"
    /\ ScorerIdle
    /\ EducationIdle
    /\ MonitorIdle
    /\ ExtractorIdle
    /\ GapIdle
    /\ ApiIdle
    /\ RankerIdle
    /\ EmbedIdle
    /\ ParserIdle

MonitorOthers == <<EMBEDDINGS_AVAILABLE, _model, scorerVars, apiVars, rankerVars, embedVars, parserVars, gapVars, extractorVars, educationVars>>

\* JobMonitor(): __init__ with _load_seen_jobs
JobMonitor_init(loadOk) ==
    /\ seen_jobs' = << _load_seen_jobs(cache_file, loadOk) >>
    /\ UNCHANGED <<MonitorOthers, cache_file, stored_jobs, monitor_runs>>

\* await monitor.run_monitor(min_match_score=40, ...)
RunMonitor(all_jobs, skills, outcome, saveOk) ==
    /\ seen_jobs # <<>>
    /\ Len(monitor_runs) < MaxRuns
    /\ LET run == run_monitor(seen_jobs[1], cache_file, stored_jobs, all_jobs,
                              skills, DefaultMinMatchScore, outcome, saveOk)
       IN  /\ seen_jobs' = << run.seen_jobs >>
           /\ cache_file' = run.cache_file
           /\ stored_jobs' = run.stored_jobs
           /\ monitor_runs' = Append(monitor_runs, run.summary)
    /\ UNCHANGED MonitorOthers

NextMonitor ==
    \/ \E loadOk \in BOOLEAN : JobMonitor_init(loadOk)
    \/ /\ seen_jobs # <<>> /\ Len(monitor_runs) < MaxRuns
       /\ \E all_jobs \in ScrapedLists, skills \in DbSkillsPool,
             outcome \in StoreOutcomes, saveOk \in BOOLEAN :
              RunMonitor(all_jobs, skills, outcome, saveOk)

SpecMonitor == InitMonitor /\ [][NextMonitor]_vars

AllJobKeys == {job_key(j) : j \in ScrapedJobs}

\* the number of times run r treated the key as new
TimesNew(r, key) ==
    Cardinality({i \in 1..Len(monitor_runs[r].new_jobs) :
                    monitor_runs[r].new_jobs[i] = key})

\* C28: across any sequence of run_monitor runs, runs of new JobMonitor
\* objects that reload the cache file included, each job key is treated as
\* new (scored, stored, notified) in at most one run and at most once
\* within that run.
C28_NewInAtMostOneRun ==
    \A key \in AllJobKeys :
        /\ \A r \in 1..Len(monitor_runs) : TimesNew(r, key) <= 1
        /\ Cardinality({r \in 1..Len(monitor_runs) : TimesNew(r, key) > 0}) <= 1

\* C29: whenever the key of a scraped job is in the cache file and the job
\* matched (score >= min_match_score) in the run that treated it as new, a
\* Job row with its title, company and apply_url exists; a run whose
\* _store_jobs_in_db fails included.
C29_SeenMatchingJobsAreStored ==
    \A j \in ScrapedJobs :
        (/\ cache_file # <<>>
         /\ job_key(j) \in cache_file[1]
         /\ \E r \in 1..Len(monitor_runs) :
                job_key(j) \in Range(monitor_runs[r].matching_jobs))
            => \E i \in 1..Len(stored_jobs) :
                   /\ stored_jobs[i].title = j.title
                   /\ stored_jobs[i].company = j.company
                   /\ stored_jobs[i].apply_url = j.apply_url


-----------------------------------------------------------------------------
(* Education entries: ResumeParserService._extract_education               *)
(* (backend/services/resume_parser.py:157-191)                             *)

\* degree_patterns (resume_parser.py:162-168), all with (?i): per pattern
\* its alternatives in order; an alternative is a sequence of characters,
\* opt marking the optional dots
degree_patterns ==
    << [family |-> "bachelor",
        alts |-> << << [ch |-> "b", opt |-> FALSE], [ch |-> "a", opt |-> FALSE], [ch |-> "c", opt |-> FALSE], [ch |-> "h", opt |-> FALSE], [ch |-> "e", opt |-> FALSE], [ch |-> "l", opt |-> FALSE], [ch |-> "o", opt |-> FALSE], [ch |-> "r", opt |-> FALSE] >>,
                   << [ch |-> "b", opt |-> FALSE], [ch |-> ".", opt |-> TRUE], [ch |-> "s", opt |-> FALSE], [ch |-> ".", opt |-> TRUE] >>,
                   << [ch |-> "b", opt |-> FALSE], [ch |-> ".", opt |-> TRUE], [ch |-> "a", opt |-> FALSE], [ch |-> ".", opt |-> TRUE] >>,
                   << [ch |-> "b", opt |-> FALSE], [ch |-> ".", opt |-> TRUE], [ch |-> "s", opt |-> FALSE], [ch |-> "c", opt |-> FALSE], [ch |-> ".", opt |-> TRUE] >> >>],
       [family |-> "master",
        alts |-> << << [ch |-> "m", opt |-> FALSE], [ch |-> "a", opt |-> FALSE], [ch |-> "s", opt |-> FALSE], [ch |-> "t", opt |-> FALSE], [ch |-> "e", opt |-> FALSE], [ch |-> "r", opt |-> FALSE] >>,
                   << [ch |-> "m", opt |-> FALSE], [ch |-> ".", opt |-> TRUE], [ch |-> "s", opt |-> FALSE], [ch |-> ".", opt |-> TRUE] >>,
                   << [ch |-> "m", opt |-> FALSE], [ch |-> ".", opt |-> TRUE], [ch |-> "a", opt |-> FALSE], [ch |-> ".", opt |-> TRUE] >>,
                   << [ch |-> "m", opt |-> FALSE], [ch |-> ".", opt |-> TRUE], [ch |-> "s", opt |-> FALSE], [ch |-> "c", opt |-> FALSE], [ch |-> ".", opt |-> TRUE] >>,
                   << [ch |-> "m", opt |-> FALSE], [ch |-> "b", opt |-> FALSE], [ch |-> "a", opt |-> FALSE] >> >>],
       [family |-> "doctorate",
        alts |-> << << [ch |-> "p", opt |-> FALSE], [ch |-> "h", opt |-> FALSE], [ch |-> ".", opt |-> TRUE], [ch |-> "d", opt |-> FALSE], [ch |-> ".", opt |-> TRUE] >>,
                   << [ch |-> "d", opt |-> FALSE], [ch |-> "o", opt |-> FALSE], [ch |-> "c", opt |-> FALSE], [ch |-> "t", opt |-> FALSE], [ch |-> "o", opt |-> FALSE], [ch |-> "r", opt |-> FALSE], [ch |-> "a", opt |-> FALSE], [ch |-> "t", opt |-> FALSE], [ch |-> "e", opt |-> FALSE] >>,
                   << [ch |-> "d", opt |-> FALSE], [ch |-> "o", opt |-> FALSE], [ch |-> "c", opt |-> FALSE], [ch |-> "t", opt |-> FALSE], [ch |-> "o", opt |-> FALSE], [ch |-> "r", opt |-> FALSE] >> >>],
       [family |-> "associate",
        alts |-> << << [ch |-> "a", opt |-> FALSE], [ch |-> "s", opt |-> FALSE], [ch |-> "s", opt |-> FALSE], [ch |-> "o", opt |-> FALSE], [ch |-> "c", opt |-> FALSE], [ch |-> "i", opt |-> FALSE], [ch |-> "a", opt |-> FALSE], [ch |-> "t", opt |-> FALSE], [ch |-> "e", opt |-> FALSE] >>,
                   << [ch |-> "a", opt |-> FALSE], [ch |-> ".", opt |-> TRUE], [ch |-> "s", opt |-> FALSE], [ch |-> ".", opt |-> TRUE] >>,
                   << [ch |-> "a", opt |-> FALSE], [ch |-> ".", opt |-> TRUE], [ch |-> "a", opt |-> FALSE], [ch |-> ".", opt |-> TRUE] >> >>],
       [family |-> "diploma",
        alts |-> << << [ch |-> "d", opt |-> FALSE], [ch |-> "i", opt |-> FALSE], [ch |-> "p", opt |-> FALSE], [ch |-> "l", opt |-> FALSE], [ch |-> "o", opt |-> FALSE], [ch |-> "m", opt |-> FALSE], [ch |-> "a", opt |-> FALSE] >>,
                   << [ch |-> "c", opt |-> FALSE], [ch |-> "e", opt |-> FALSE], [ch |-> "r", opt |-> FALSE], [ch |-> "t", opt |-> FALSE], [ch |-> "i", opt |-> FALSE], [ch |-> "f", opt |-> FALSE], [ch |-> "i", opt |-> FALSE], [ch |-> "c", opt |-> FALSE], [ch |-> "a", opt |-> FALSE], [ch |-> "t", opt |-> FALSE], [ch |-> "e", opt |-> FALSE] >> >>] >>

\* the offset where a match of the alternative from token k on, starting at
\* offset p of text, ends; -1 when there is none.  An optional dot is taken
\* when present: the character after it in the pattern is never a dot.
RECURSIVE AltEnd(_, _, _, _)
AltEnd(text, p, alt, k) ==
    IF k > Len(alt) THEN p
    ELSE IF p < Len(text) /\ LowerChar(text[p + 1]) = alt[k].ch
         THEN AltEnd(text, p + 1, alt, k + 1)
    ELSE IF alt[k].opt THEN AltEnd(text, p, alt, k + 1)
    ELSE -1

\* the end of the match of (alt1|alt2|...) at offset p: the first
\* alternative that matches decides; -1 when none does
PatternEnd(text, p, alts) ==
    LET hits == {a \in 1..Len(alts) : AltEnd(text, p, alts[a], 1) # -1}
    IN  IF hits = {} THEN -1
        ELSE AltEnd(text, p, alts[CHOOSE a \in hits : \A b \in hits : a <= b], 1)

\* re.finditer(pattern, text) from offset pos on: the matches, leftmost
\* first, none overlapping another, as <<start, end>> pairs
RECURSIVE DegreeMatches(_, _, _)
DegreeMatches(text, alts, pos) ==
    LET starts == {p \in pos..(Len(text) - 1) : PatternEnd(text, p, alts) # -1}
    IN  IF starts = {} THEN <<>>
        ELSE LET start == CHOOSE p \in starts : \A q \in starts : p <= q
                 end == PatternEnd(text, start, alts)
             IN  << <<start, end>> >> \o DegreeMatches(text, alts, end)

\* re.search(r"20\d{2}|19\d{2}", context): <<year>> of the leftmost match,
\* <<>> (None) without one
GraduationYear(context) ==
    LET hits == {i \in 0..(Len(context) - 4) :
                    /\ \/ context[i + 1] = "2" /\ context[i + 2] = "0"
                       \/ context[i + 1] = "1" /\ context[i + 2] = "9"
                    /\ context[i + 3] \in DigitSet
                    /\ context[i + 4] \in DigitSet}
    IN  IF hits = {} THEN <<>>
        ELSE << YearAt(context, CHOOSE i \in hits : \A k \in hits : i <= k) >>

\* the dict appended for one match
EducationEntry(text, mt) ==
    LET context == Slice(text, Max(0, mt[1] - 50), Min(Len(text), mt[2] + 100))
    IN  [degree |-> Slice(text, mt[1], mt[2]),
         context |-> Strip(context),
         graduation_year |-> GraduationYear(context)]

RECURSIVE EntriesFrom(_, _)
EntriesFrom(text, k) ==
    IF k > Len(degree_patterns) THEN <<>>
    ELSE LET found == DegreeMatches(text, degree_patterns[k].alts, 0)
         IN  [i \in 1..Len(found) |-> EducationEntry(text, found[i])]
             \o EntriesFrom(text, k + 1)

_extract_education(text) == EntriesFrom(text, 1)

-----------------------------------------------------------------------------
(* The education entries on their way to the scorer: _extract_education is *)
(* called on a text, and the list it returns is scored as Resume.education *)
(* against a job.                                                          *)

MaxEduWords == 2

G_BS == <<"B",".","S",".">>

G_MBA == <<"M","B","A">>

G_PhD_dotted == <<"P","h",".","D">>

G_Bachelor == <<"B","a","c","h","e","l","o","r">>

G_Masters == <<"M","a","s","t","e","r","s">>

G_Doctorate == <<"D","o","c","t","o","r","a","t","e">>

G_2019 == <<"2","0","1","9">>

G_of == <<"o","f">>

EduWords == {G_BS, G_MBA, G_PhD_dotted, G_Bachelor, G_Masters, G_Doctorate, G_2019, G_of}

\* the text of an education section: up to MaxEduWords words
EduTexts ==
    {JoinWords(ws) : ws \in UNION {[1..k -> EduWords] : k \in 0..MaxEduWords}}

E_Bachelor == <<"B","a","c","h","e","l","o","r","'","s">>

E_Associate == <<"A","s","s","o","c","i","a","t","e">>

\* Job.education_required of the jobs the list is scored against
EduRequiredPool == {E_Associate, E_Bachelor, E_Master_or_Bachelor, E_PhD}

InitEducation ==
    /\ EMBEDDINGS_AVAILABLE = FALSE
    /\ _model = "None"
    /\ ScorerIdle
    /\ EducationIdle
    /\ MonitorIdle
    /\ ExtractorIdle
    /\ GapIdle
    /\ ApiIdle
    /\ RankerIdle
    /\ EmbedIdle
    /\ ParserIdle

EducationOthers == <<EMBEDDINGS_AVAILABLE, _model, scorerVars, apiVars, rankerVars, embedVars, parserVars, gapVars, extractorVars, monitorVars>>

\* education = self._extract_education(text)
ExtractEducation(text) ==
    /\ education_call = <<>>
    /\ education_call' = << [text |-> text, education |-> _extract_education(text),
                            required |-> NoneVal, score |-> <<>>] >>
    /\ UNCHANGED EducationOthers

\* _calculate_education_score(resume, job) with resume.education the list
\* the parser returned
ScoreEducation(required) ==
    /\ education_call # <<>>
    /\ education_call[1].score = <<>>
    /\ education_call' =
           << [education_call[1] EXCEPT
                 !.required = required,
                 !.score = << _calculate_education_score(
                                 [education |-> education_call[1].education],
                                 [education_required |-> required]) >>] >>
    /\ UNCHANGED EducationOthers

NextEducation ==
    \/ /\ education_call = <<>>
       /\ \E text \in EduTexts : ExtractEducation(text)
    \/ \E required \in EduRequiredPool : ScoreEducation(required)

SpecEducation == InitEducation /\ [][NextEducation]_vars

\* the level of the pattern families bachelor, master and doctorate
FamilyLevel(family) ==
    IF family = "bachelor" THEN 3
    ELSE IF family = "master" THEN 4
    ELSE IF family = "doctorate" THEN 5
    ELSE 0

\* the families one of whose alternatives matches the whole degree string
FamiliesOf(degree) ==
    {degree_patterns[k].family :
        k \in {n \in 1..Len(degree_patterns) :
                 \E a \in 1..Len(degree_patterns[n].alts) :
                     AltEnd(degree, 0, degree_patterns[n].alts[a], 1) = Len(degree)}}

\* C30: every degree string of the list _extract_education returned that
\* the bachelor, master or doctorate pattern family captures is recognised
\* by _calculate_education_score at that family's level (3, 4 or 5), so
\* the list scores 100 against a job requiring that level or a lower one.
C30_CapturedDegreesRecognised ==
    education_call # <<>> =>
        \A i \in 1..Len(education_call[1].education) :
            \A family \in FamiliesOf(education_call[1].education[i].degree) :
                FamilyLevel(family) > 0 =>
                    /\ CandidateLevel(<< education_call[1].education[i] >>)
                           >= FamilyLevel(family)
                    /\ (/\ education_call[1].score # <<>>
                        /\ FirstLevelIn(Lower(education_call[1].required))
                               <= FamilyLevel(family))
                           => education_call[1].score[1] = FracOfInt(100)

=============================================================================
